---------------------------- MODULE Spec2Model ----------------------------
(***************************************************************************)
(* Model of the WAGMI indexer: the lowdb-backed registry (dbHelpers), the  *)
(* PoolIndexer service (indexAllPools, updatePoolState,                    *)
(* updateAllPoolStates) and the triggers wired in main() and the admin     *)
(* routes.                                                                 *)
(*                                                                         *)
(* Node runs one job at a time; a job runs until it awaits a chain read.   *)
(* Every action below is one such job: the arrival of an awaited result    *)
(* and everything the handler does synchronously until its next chain      *)
(* read.  An await of an already settled promise continues in the same     *)
(* action.                                                                 *)
(*                                                                         *)
(* Encodings.  A JavaScript string of decimal digits is a sequence of      *)
(* digits (ToString / ParseInt).  A nullable or optional value is a        *)
(* sequence of length 0 (null / undefined) or 1 (the value).  An address   *)
(* is <<name, casing>> with casing "m" for the mixed-case (checksummed)    *)
(* form the chain client reports and "l" for lower case; toLowerCase       *)
(* maps both to <<name, "l">>.                                             *)
(*                                                                         *)
(* The fields created_at (Token, Pool) and updated_at (IndexerState) are   *)
(* written from the clock and never read by any code; the records of the   *)
(* model leave them out.                                                   *)
(***************************************************************************)
EXTENDS Integers, Sequences, FiniteSets

(***************************************************************************)
(* Bounds of the model.                                                    *)
(***************************************************************************)
\* the chain head when the process starts
InitHead == 2
\* the chain head never exceeds MaxHead
MaxHead == 3
\* the wall clock (seconds) never exceeds MaxTime
MaxTime == 1
\* number of operations (discovery runs, refresh passes) in flight at once
MaxActive == 2
\* number of calls the client of SpecApi makes
MaxCalls == 3
MaxSnapshots == 3
MaxCandles == 3

(***************************************************************************)
(* Configuration (src/config.ts), scaled down to the size of the model     *)
(* chain: startBlock 57000000 -> 1, batchSize 5000 -> 2.                   *)
(***************************************************************************)
startBlockCfg == 1
batchSize == 2

(***************************************************************************)
(* Strings                                                                 *)
(***************************************************************************)
Null == <<>>
Some(v) == <<v>>

\* String.prototype.toLowerCase on an address
ToLowerCase(a) == <<a[1], "l">>

\* Number.prototype.toString (non-negative integers, base 10)
RECURSIVE ToString(_)
ToString(n) == IF n < 10 THEN <<n>> ELSE Append(ToString(n \div 10), n % 10)

\* parseInt on a string of decimal digits
RECURSIVE ParseInt(_)
ParseInt(s) ==
  IF Len(s) = 1 THEN s[1]
  ELSE 10 * ParseInt(SubSeq(s, 1, Len(s) - 1)) + s[Len(s)]

Min(a, b) == IF a < b THEN a ELSE b

Range(s) == {s[i] : i \in 1..Len(s)}

(***************************************************************************)
(* Numbers (utils/price.ts).  A non-negative JavaScript Number is modelled *)
(* exactly, as [m, e] standing for m * 10^e with m not a multiple of 10    *)
(* (m = 0 goes with e = 0); binary rounding is left out, and a reciprocal  *)
(* is cut to RecipDigits significant digits.  The string of a Number is    *)
(* its exponent form: the digits of m, the character e, the sign and the   *)
(* digits of the exponent, characters other than digits being the codes    *)
(* CharE and CharMinus.                                                    *)
(*                                                                         *)
(* The widths of price.ts are scaled down to the integers of the model:    *)
(* 2^192 -> 2^4, 10^18 -> 10^3, Number.MAX_SAFE_INTEGER (2^53 - 1 =        *)
(* 9007199254740991) -> 9007, the largest uint160 -> 2^5 - 1.              *)
(***************************************************************************)
Q192 == 16
PrecisionDigits == 3
MaxSafeInteger == 9007
MaxSqrtPriceX96 == 31
RecipDigits == 3

CharE == 10
CharMinus == 11

RECURSIVE Pow10(_)
Pow10(k) == IF k = 0 THEN 1 ELSE 10 * Pow10(k - 1)

\* the Number m * 10^e
RECURSIVE Num(_, _)
Num(m, e) ==
  IF m = 0 THEN [m |-> 0, e |-> 0]
  ELSE IF m % 10 = 0 THEN Num(m \div 10, e + 1)
  ELSE [m |-> m, e |-> e]

\* 10 ** k
Exp10(k) == [m |-> 1, e |-> k]

\* x * y for y a power of ten
Times(x, y) == Num(x.m * y.m, x.e + y.e)

\* the place of the leading digit of x
Magnitude(x) == Len(ToString(x.m)) + x.e

\* x < y
Less(x, y) ==
  IF x.m = 0 THEN y.m > 0
  ELSE IF y.m = 0 THEN FALSE
  ELSE IF Magnitude(x) # Magnitude(y) THEN Magnitude(x) < Magnitude(y)
  ELSE LET dx == Len(ToString(x.m))
           dy == Len(ToString(y.m))
       IN  IF dx <= dy THEN x.m * Pow10(dy - dx) < y.m
           ELSE x.m < y.m * Pow10(dx - dy)

\* 1 / x for x > 0
Recip(x) ==
  LET d == Len(ToString(x.m)) + RecipDigits - 1
  IN  Num(Pow10(d) \div x.m, 0 - d - x.e)

\* Number.prototype.toString
NumberToString(x) ==
  ToString(x.m) \o <<CharE>> \o
  (IF x.e < 0 THEN <<CharMinus>> \o ToString(0 - x.e) ELSE ToString(x.e))

\* parseFloat on the string of a Number
ParseFloat(s) ==
  LET k == CHOOSE i \in 1..Len(s) : s[i] = CharE
      m == ParseInt(SubSeq(s, 1, k - 1))
      e == IF s[k + 1] = CharMinus THEN 0 - ParseInt(SubSeq(s, k + 2, Len(s)))
           ELSE ParseInt(SubSeq(s, k + 1, Len(s)))
  IN  [m |-> m, e |-> e]

\* BigNumber.toNumber: a value beyond Number.MAX_SAFE_INTEGER throws
ToNumber(n) ==
  IF n > MaxSafeInteger THEN [error |-> Some("NUMERIC_FAULT"), value |-> 0]
  ELSE [error |-> Null, value |-> n]

\* price.ts lines 11-37; error is the exception thrown, if any
SqrtPriceX96ToPrice(sqrtPriceX96, decimals0, decimals1) ==
  LET sqrtPrice == ParseInt(sqrtPriceX96)
      numerator == sqrtPrice * sqrtPrice
      decimalAdjustment == Exp10(decimals0 - decimals1)
      price0Num == numerator * Pow10(PrecisionDigits)
      quotient == ToNumber(price0Num \div Q192)
      price0 == Times(Num(quotient.value, 0 - PrecisionDigits), decimalAdjustment)
      price1 == IF price0.m > 0 THEN Recip(price0) ELSE Num(0, 0)
  IN  IF quotient.error # Null
      THEN [error |-> quotient.error, price0 |-> <<>>, price1 |-> <<>>]
      ELSE [error |-> Null, price0 |-> NumberToString(price0),
            price1 |-> NumberToString(price1)]

\* the base 1.0001 of the tick scale, scaled to 2
TickBase == 2

\* Math.floor(Math.log(n / d) / Math.log(TickBase)) for integers n, d > 0
RECURSIVE LogFloor(_, _)
LogFloor(n, d) ==
  IF n < d THEN LogFloor(TickBase * n, d) - 1
  ELSE IF n >= TickBase * d THEN LogFloor(n, TickBase * d) + 1
  ELSE 0

\* price.ts lines 63-65.  Math.log gives NaN for a negative number and
\* -Infinity for zero, and the division and Math.floor keep them; error is
\* the exception thrown, if any
PriceToTick(price) ==
  [error |-> Null,
   value |-> IF price.m < 0 THEN [kind |-> "NaN", n |-> 0]
             ELSE IF price.m = 0 THEN [kind |-> "-Infinity", n |-> 0]
             ELSE [kind |-> "finite",
                   n |-> IF price.e >= 0
                         THEN LogFloor(price.m * Pow10(price.e), 1)
                         ELSE LogFloor(price.m, Pow10(0 - price.e))]]

(***************************************************************************)
(* The chain (external).  Pool-creation events are fixed per block; a      *)
(* block's events become visible when the head reaches it.  A pool's       *)
(* on-chain state changes from block to block.                             *)
(***************************************************************************)
P1 == <<"P1", "m">>
P2 == <<"P2", "m">>
TA == <<"TA", "m">>
TB == <<"TB", "m">>

ChainEvents ==
  << [blockNumber |-> 1, hasArgs |-> TRUE,
      args |-> [token0 |-> TA, token1 |-> TB, fee |-> 500,
                tickSpacing |-> 10, pool |-> P1]],
     [blockNumber |-> 3, hasArgs |-> TRUE,
      args |-> [token0 |-> TA, token1 |-> TB, fee |-> 3000,
                tickSpacing |-> 60, pool |-> P2]] >>

\* factory.queryFilter(filter, from, to): the events of blocks from..to
QueryFilter(from, to) ==
  SelectSeq(ChainEvents, LAMBDA e : from <= e.blockNumber /\ e.blockNumber <= to)

PoolNo(a) == IF a[1] = "P1" THEN 1 ELSE 2

\* pool.slot0(), pool.liquidity(), pool.feeGrowthGlobal{0,1}X128() at block h
Slot0(a, h) ==
  [sqrtPriceX96 |-> IF PoolNo(a) = 1 THEN 13 - 3 * (h % 2) ELSE 9 + (h % 3),
   tick |-> h - PoolNo(a)]
Liquidity(a, h) == 100 + h
FeeGrowthGlobal0X128(a, h) == h
FeeGrowthGlobal1X128(a, h) == 2 * h

\* ERC20 name(), symbol(), decimals()
TokenName(a) == a[1]
TokenSymbol(a) == a[1]
TokenDecimals(a) == IF a[1] = "TA" THEN 6 ELSE 8

PoolReads == {"slot0", "liquidity", "feeGrowthGlobal0X128", "feeGrowthGlobal1X128"}
TokenReads == {"name", "symbol", "decimals"}

(***************************************************************************)
(* State                                                                   *)
(***************************************************************************)
VARIABLES
  tokens,         \* db.tokens: sequence of Token records
  pools,          \* db.pools: sequence of Pool records
  indexer_state,  \* db.indexer_state: sequence of IndexerState records
  head,           \* the chain head (provider.getBlockNumber)
  now,            \* Math.floor(Date.now() / 1000)
  run,            \* the indexAllPools invocation of each trigger
  pass,           \* the updateAllPoolStates invocation of each trigger
  mainPc,         \* where main() is: "init", "indexing", "refreshing", "scheduled"
  calls,          \* calls the client of SpecApi made so far
  thrown,         \* the error the client's last dbHelpers call threw, if any
  lastCall,       \* history: the client's last dbHelpers call and its argument
  lastDone,       \* history: the store as the client's last indexAllPools left it
  price_snapshots,      \* db.price_snapshots: sequence of PriceSnapshot records
  snapshot_id_counter,  \* db._snapshot_id_counter
  candles,              \* db.candles: sequence of Candle records
  returned        \* what the client's last call returned, if it returned a value

dbVars == <<tokens, pools, indexer_state>>
priceVars == <<price_snapshots, snapshot_id_counter, candles, returned>>
vars == <<tokens, pools, indexer_state, head, now, run, pass, mainPc, calls,
          thrown, lastCall, lastDone, priceVars>>

(***************************************************************************)
(* dbHelpers (src/db/database.ts).  Each helper is synchronous; a helper   *)
(* that writes returns the new collection.                                 *)
(***************************************************************************)
\* lodash find({address: a}): the first record whose address is a, if any
FindByAddress(coll, a) ==
  LET hits == {i \in 1..Len(coll) : coll[i].address = a}
  IN  IF hits = {} THEN 0 ELSE CHOOSE i \in hits : \A j \in hits : i <= j

\* lodash assign(record, updates)
Assign(rec, updates) ==
  [f \in DOMAIN rec \cup DOMAIN updates |->
     IF f \in DOMAIN updates THEN updates[f] ELSE rec[f]]

GetToken(tk, address) ==
  LET i == FindByAddress(tk, ToLowerCase(address))
  IN  IF i = 0 THEN Null ELSE Some(tk[i])

\* AddToken changed to leave out a token whose symbol could not be fetched
AddToken_skipUnknown(tk, token) ==
  IF FindByAddress(tk, ToLowerCase(token.address)) = 0 /\ token.symbol # "???"
  THEN Append(tk, [address |-> ToLowerCase(token.address),
                   symbol |-> token.symbol, name |-> token.name,
                   decimals |-> token.decimals])
  ELSE tk

\* AddToken changed to look the address up as given, without lower-casing it
AddToken_rawLookup(tk, token) ==
  IF FindByAddress(tk, token.address) = 0
  THEN Append(tk, [address |-> ToLowerCase(token.address),
                   symbol |-> token.symbol, name |-> token.name,
                   decimals |-> token.decimals])
  ELSE tk

AddToken(tk, token) ==
  IF GetToken(tk, token.address) = Null
  THEN Append(tk, [address |-> ToLowerCase(token.address),
                   symbol |-> token.symbol, name |-> token.name,
                   decimals |-> token.decimals])
  ELSE tk

GetPool(pl, address) ==
  LET i == FindByAddress(pl, ToLowerCase(address))
  IN  IF i = 0 THEN Null ELSE Some(pl[i])

\* AddPool changed to look the address up as given, without lower-casing it
AddPool_rawLookup(pl, pool) ==
  IF FindByAddress(pl, pool.address) = 0
  THEN Append(pl, [address |-> ToLowerCase(pool.address),
                   token0 |-> ToLowerCase(pool.token0),
                   token1 |-> ToLowerCase(pool.token1),
                   fee |-> pool.fee, tick_spacing |-> pool.tick_spacing,
                   sqrt_price_x96 |-> Null, tick |-> Null, liquidity |-> Null,
                   fee_growth_global0_x128 |-> Null,
                   fee_growth_global1_x128 |-> Null,
                   last_updated |-> Null])
  ELSE pl

\* AddPool changed to replace the record of a known address by a fresh one
AddPool_replace(pl, pool) ==
  LET fresh == [address |-> ToLowerCase(pool.address),
                token0 |-> ToLowerCase(pool.token0),
                token1 |-> ToLowerCase(pool.token1),
                fee |-> pool.fee, tick_spacing |-> pool.tick_spacing,
                sqrt_price_x96 |-> Null, tick |-> Null, liquidity |-> Null,
                fee_growth_global0_x128 |-> Null,
                fee_growth_global1_x128 |-> Null,
                last_updated |-> Null]
      i == FindByAddress(pl, ToLowerCase(pool.address))
  IN  IF i = 0 THEN Append(pl, fresh) ELSE [pl EXCEPT ![i] = fresh]

AddPool(pl, pool) ==
  IF GetPool(pl, pool.address) = Null
  THEN Append(pl, [address |-> ToLowerCase(pool.address),
                   token0 |-> ToLowerCase(pool.token0),
                   token1 |-> ToLowerCase(pool.token1),
                   fee |-> pool.fee, tick_spacing |-> pool.tick_spacing,
                   sqrt_price_x96 |-> Null, tick |-> Null, liquidity |-> Null,
                   fee_growth_global0_x128 |-> Null,
                   fee_growth_global1_x128 |-> Null,
                   last_updated |-> Null])
  ELSE pl

\* find(...).assign(updates): nothing is assigned when no record matches
UpdatePool(pl, address, updates) ==
  LET i == FindByAddress(pl, ToLowerCase(address))
  IN  IF i = 0 THEN pl ELSE [pl EXCEPT ![i] = Assign(@, updates)]

GetPoolsByPair_ordered(pl, token0, token1) ==
  LET t0 == ToLowerCase(token0)
      t1 == ToLowerCase(token1)
      Pair(p) == p.token0 = t0 /\ p.token1 = t1
  IN  SelectSeq(pl, Pair)

\* database.ts lines 182-191
GetPoolsByPair(pl, token0, token1) ==
  LET t0 == ToLowerCase(token0)
      t1 == ToLowerCase(token1)
      Pair(p) == \/ p.token0 = t0 /\ p.token1 = t1
                 \/ p.token0 = t1 /\ p.token1 = t0
  IN  SelectSeq(pl, Pair)

GetAllPools(pl) == pl

GetState(is, key) ==
  LET hits == {i \in 1..Len(is) : is[i].key = key}
  IN  IF hits = {} THEN Null
      ELSE Some(is[CHOOSE i \in hits : \A j \in hits : i <= j].value)

\* SetState changed to push a record whether or not the key is known
SetState_alwaysPush(is, key, value) ==
  Append(is, [key |-> key, value |-> value])

SetState(is, key, value) ==
  LET hits == {i \in 1..Len(is) : is[i].key = key}
  IN  IF hits # {}
      THEN [is EXCEPT ![CHOOSE i \in hits : \A j \in hits : i <= j] =
              Assign(@, [value |-> value])]
      ELSE Append(is, [key |-> key, value |-> value])

(***************************************************************************)
(* PoolIndexer.indexAllPools (services/poolIndexer.ts).                    *)
(*                                                                         *)
(* A configuration c is the store together with one invocation's locals:   *)
(* [tokens, pools, indexer_state, t, h, r], t the clock, h the chain head   *)
(* and r the record                                                        *)
(*   pc            where the invocation is waiting                         *)
(*   fromBlock     the argument (Null when omitted)                        *)
(*   startBlock, currentBlock, from   the locals of the same name          *)
(*   events        the events of the batch still to process                *)
(*   rd            the chain head when the awaited pool reads were issued  *)
(*   failed        history: the `from` of every batch whose query failed   *)
(* The operators below run the handler from one point to its next await.   *)
(***************************************************************************)
Runs == {"sync", "admin", "api"}
Passes == {"refresh"}

IdleRun ==
  [pc |-> "idle", fromBlock |-> Null, startBlock |-> 0, currentBlock |-> 0,
   from |-> 0, events |-> <<>>, rd |-> 0, failed |-> {}]

\* a || b on an optional number: undefined and 0 are falsy
Falsy(n) == n = Null \/ n[1] = 0

\* StartBlock changed to resume two blocks after the cursor
StartBlock_skipOne(fromBlock, lastIndexed) ==
  IF ~Falsy(fromBlock) THEN fromBlock[1]
  ELSE IF lastIndexed # Null /\ lastIndexed[1] # <<>>
       THEN ParseInt(lastIndexed[1]) + 2
       ELSE startBlockCfg

\* line 27: fromBlock || (lastIndexed ? parseInt(lastIndexed) : startBlock)
StartBlock(fromBlock, lastIndexed) ==
  IF ~Falsy(fromBlock) THEN fromBlock[1]
  ELSE IF lastIndexed # Null /\ lastIndexed[1] # <<>>
       THEN ParseInt(lastIndexed[1])
       ELSE startBlockCfg

\* CursorValue changed to persist the head at the time of the write
CursorValue_headAtWrite(r) == ToString(head)

\* line 55: the value persisted under 'last_indexed_block'
CursorValue(r) == ToString(r.currentBlock)

\* lines 129-136: the updates written from reads served at block h
LiveState(address, h, t) ==
  [sqrt_price_x96 |-> Some(ToString(Slot0(address, h).sqrtPriceX96)),
   tick |-> Some(Slot0(address, h).tick),
   liquidity |-> Some(ToString(Liquidity(address, h))),
   fee_growth_global0_x128 |-> Some(ToString(FeeGrowthGlobal0X128(address, h))),
   fee_growth_global1_x128 |-> Some(ToString(FeeGrowthGlobal1X128(address, h))),
   last_updated |-> Some(t)]

\* To changed to from + batchSize, the start of the following batch
To_nextFrom(from, currentBlock) == Min(from + batchSize, currentBlock)

\* line 36: the last block of the batch starting at from
To(from, currentBlock) == Min(from + batchSize - 1, currentBlock)

\* lines 35-36 and 55-56: the loop test for the batch starting at f; either
\* the next query is issued or the cursor is written and the run returns
NextBatch(c, f) ==
  IF f <= c.r.currentBlock
  THEN [c EXCEPT !.r.pc = "query", !.r.from = f, !.r.events = <<>>, !.r.rd = 0]
  ELSE [c EXCEPT !.indexer_state =
                    SetState(@, "last_indexed_block", CursorValue(c.r)),
                 !.r.pc = "done", !.r.from = 0, !.r.events = <<>>, !.r.rd = 0]

\* lines 72-81: addPool, then updatePoolState issues its four reads
InsertPool(c) ==
  LET a == Head(c.r.events).args
  IN  [c EXCEPT !.pools = AddPool(@, [address |-> a.pool, token0 |-> a.token0,
                                      token1 |-> a.token1, fee |-> a.fee,
                                      tick_spacing |-> a.tickSpacing]),
                !.r.pc = "state", !.r.rd = c.h]

\* line 69 with lines 90-99: ensureToken(token1)
EnsureToken1(c) ==
  IF GetToken(c.tokens, Head(c.r.events).args.token1) = Null
  THEN [c EXCEPT !.r.pc = "token1", !.r.rd = 0]
  ELSE InsertPool(c)

\* line 68 with lines 90-99: ensureToken(token0)
EnsureToken0(c) ==
  IF GetToken(c.tokens, Head(c.r.events).args.token0) = Null
  THEN [c EXCEPT !.r.pc = "token0", !.r.rd = 0]
  ELSE EnsureToken1(c)

\* lines 41-45: the event loop; after the last event the next batch
RECURSIVE ProcessEvents(_)
ProcessEvents(c) ==
  IF c.r.events = <<>> THEN NextBatch(c, c.r.from + batchSize)
  ELSE IF ~Head(c.r.events).hasArgs
       THEN ProcessEvents([c EXCEPT !.r.events = Tail(@)])
       ELSE EnsureToken0(c)

\* lines 95-106: the metadata reads have settled, those in fails by rejecting
FetchedToken(address, fails) ==
  [address |-> address,
   symbol |-> IF "symbol" \in fails THEN "???" ELSE TokenSymbol(address),
   name |-> IF "name" \in fails THEN "Unknown" ELSE TokenName(address),
   decimals |-> IF "decimals" \in fails THEN 18 ELSE TokenDecimals(address)]

\* WritePoolState changed to stamp last_updated before the reads are awaited
WritePoolState_stampFirst(pl, address, ok, h, t) ==
  IF ok THEN UpdatePool(pl, address, LiveState(address, h, t))
  ELSE UpdatePool(pl, address, [last_updated |-> Some(t)])

\* lines 129-139: updatePoolState after its reads; ok when none rejected
WritePoolState(pl, address, ok, h, t) ==
  IF ok THEN UpdatePool(pl, address, LiveState(address, h, t)) ELSE pl

Config(r) ==
  [tokens |-> tokens, pools |-> pools, indexer_state |-> indexer_state,
   t |-> now, h |-> head, r |-> run[r]]

\* the variables after run r moved to configuration c
Becomes(r, c) ==
  /\ tokens' = c.tokens
  /\ pools' = c.pools
  /\ indexer_state' = c.indexer_state
  /\ run' = [run EXCEPT ![r] = c.r]

\* lines 23-28: the call reads the cursor and asks for the chain head
IndexAllPools(r, fromBlock) ==
  /\ run[r].pc = "idle"
  /\ run' = [run EXCEPT ![r] =
       [IdleRun EXCEPT !.pc = "head", !.fromBlock = fromBlock,
          !.startBlock = StartBlock(fromBlock,
                            GetState(indexer_state, "last_indexed_block"))]]
  /\ UNCHANGED <<tokens, pools, indexer_state, head, now, pass, lastDone, priceVars>>

\* line 28 resolves: the loop starts at startBlock
GotBlockNumber(r) ==
  /\ run[r].pc = "head"
  /\ LET c == [Config(r) EXCEPT !.r.currentBlock = head]
         d == NextBatch(c, c.r.startBlock)
     IN  Becomes(r, d)
  /\ UNCHANGED <<head, now, pass, mainPc, calls, thrown, lastCall, lastDone, priceVars>>

\* line 28 rejects: indexAllPools throws to its caller
BlockNumberFailed(r) ==
  /\ run[r].pc = "head"
  /\ run' = [run EXCEPT ![r].pc = "aborted"]
  /\ UNCHANGED <<tokens, pools, indexer_state, head, now, pass, mainPc,
                 calls, thrown, lastCall, lastDone, priceVars>>

\* line 39 resolves with the events of from..to
GotEvents(r) ==
  /\ run[r].pc = "query"
  /\ LET to == To(run[r].from, run[r].currentBlock)
         c == [Config(r) EXCEPT !.r.events = QueryFilter(run[r].from, to)]
         d == ProcessEvents(c)
     IN  Becomes(r, d)
  /\ UNCHANGED <<head, now, pass, mainPc, calls, thrown, lastCall, lastDone, priceVars>>

\* QueryFailed changed to query the same batch again
QueryFailed_retry(r) ==
  /\ run[r].pc = "query"
  /\ LET c == [Config(r) EXCEPT !.r.failed = @ \cup {run[r].from}]
         d == NextBatch(c, c.r.from)
     IN  Becomes(r, d)
  /\ UNCHANGED <<head, now, pass, mainPc, calls, thrown, lastCall, lastDone, priceVars>>

\* line 39 rejects: lines 50-52 log it and the loop goes on
QueryFailed(r) ==
  /\ run[r].pc = "query"
  /\ LET c == [Config(r) EXCEPT !.r.failed = @ \cup {run[r].from}]
         d == NextBatch(c, c.r.from + batchSize)
     IN  Becomes(r, d)
  /\ UNCHANGED <<head, now, pass, mainPc, calls, thrown, lastCall, lastDone, priceVars>>

\* lines 95-106 for token0, then ensureToken(token1)
GotToken0(r, fails) ==
  /\ run[r].pc = "token0"
  /\ LET c == Config(r)
         a == Head(c.r.events).args.token0
         d == EnsureToken1([c EXCEPT !.tokens =
                              AddToken(@, FetchedToken(a, fails))])
     IN  Becomes(r, d)
  /\ UNCHANGED <<head, now, pass, mainPc, calls, thrown, lastCall, lastDone, priceVars>>

\* lines 95-106 for token1, then addPool and updatePoolState
GotToken1(r, fails) ==
  /\ run[r].pc = "token1"
  /\ LET c == Config(r)
         a == Head(c.r.events).args.token1
         d == InsertPool([c EXCEPT !.tokens =
                            AddToken(@, FetchedToken(a, fails))])
     IN  Becomes(r, d)
  /\ UNCHANGED <<head, now, pass, mainPc, calls, thrown, lastCall, lastDone, priceVars>>

\* lines 122-139, then line 83 and the next event: the four reads, issued
\* when the head was rd, were served at block h, those in fails by rejecting
PoolStateResumed(r, fails, h) ==
  /\ run[r].pc = "state"
  /\ h \in run[r].rd..head
  /\ LET c == Config(r)
         a == Head(c.r.events).args.pool
         d == ProcessEvents(
                [c EXCEPT !.pools = WritePoolState(@, a, fails = {}, h, c.t),
                          !.r.events = Tail(@)])
     IN  Becomes(r, d)
  /\ UNCHANGED <<head, now, pass, mainPc, calls, thrown, lastCall, lastDone, priceVars>>

(***************************************************************************)
(* PoolIndexer.updateAllPoolStates (lines 145-156).  `pools` is the live   *)
(* db.pools array, so the for-of loop also reaches records pushed while    *)
(* the pass is waiting.  The pass record:                                  *)
(*   pc, rd      as for a run                                              *)
(*   i           index in db.pools of the pool being refreshed             *)
(*   attempted   history: the addresses updatePoolState was called with    *)
(*   by          the caller: "main" or "cron"                              *)
(***************************************************************************)
IdlePass == [pc |-> "idle", i |-> 0, rd |-> 0, attempted |-> <<>>, by |-> ""]

\* lines 150-155: the loop test at index i; the next refresh or the return
NextPool(pl, ps, i, h) ==
  IF i <= Len(GetAllPools(pl))
  THEN [ps EXCEPT !.pc = "state", !.i = i, !.rd = h,
                  !.attempted = Append(@, GetAllPools(pl)[i].address)]
  ELSE [ps EXCEPT !.pc = "done", !.i = 0, !.rd = 0]

UpdateAllPoolStates(q, by) ==
  /\ pass[q].pc = "idle"
  /\ pass' = [pass EXCEPT ![q] = NextPool(pools, [IdlePass EXCEPT !.by = by], 1, head)]
  /\ UNCHANGED <<tokens, pools, indexer_state, head, now, run, lastDone, priceVars>>

\* AfterRefresh changed to let a failed refresh end the loop
AfterRefresh_stopOnFailure(pl, ps, ok, h) ==
  IF ok THEN NextPool(pl, ps, ps.i + 1, h)
  ELSE [ps EXCEPT !.pc = "done", !.i = 0, !.rd = 0]

\* lines 137-139 and 150: a failed refresh is caught inside updatePoolState,
\* so the loop goes on to the next pool whether the refresh was ok or not
AfterRefresh(pl, ps, ok, h) == NextPool(pl, ps, ps.i + 1, h)

\* lines 122-139 for the pool at index i, then the next pool
PassResumed(q, fails, h) ==
  /\ pass[q].pc = "state"
  /\ h \in pass[q].rd..head
  /\ pools' = WritePoolState(pools, pools[pass[q].i].address, fails = {}, h, now)
  /\ pass' = [pass EXCEPT ![q] = AfterRefresh(pools', pass[q], fails = {}, head)]
  /\ UNCHANGED <<tokens, indexer_state, head, now, run, mainPc, calls,
                 thrown, lastCall, lastDone, priceVars>>

(***************************************************************************)
(* PriceTracker.snapshotAllPrices (services/priceTracker.ts lines 9-60)    *)
(* and dbHelpers.addPriceSnapshot.  snapshotPoolPrice awaits nothing that  *)
(* is pending, so a whole pass is one job.  A price store st is            *)
(* [price_snapshots, snapshot_id_counter]; a pass carries it along with    *)
(* count and the error thrown, if any.  The volume and tvl fields of a     *)
(* snapshot are always the string '0' and are left out.  main() and the minute cron job     *)
(* call the pass after updateAllPoolStates and catch what it throws; it    *)
(* reads pools and tokens and writes the price store only, which Spec      *)
(* leaves out: the pass is composed with the registry in SpecSnap.         *)
(***************************************************************************)
\* AddPriceSnapshot changed to number a snapshot by its place in the store
AddPriceSnapshot_idFromLength(st, snapshot) ==
  LET counter == Len(st.price_snapshots) + 1
  IN  [st EXCEPT !.snapshot_id_counter = counter,
                 !.price_snapshots =
                    Append(@, [id |-> counter,
                               pool_address |-> snapshot.pool_address,
                               timestamp |-> snapshot.timestamp,
                               price_token0_in_token1 |-> snapshot.price_token0_in_token1,
                               price_token1_in_token0 |-> snapshot.price_token1_in_token0,
                               sqrt_price_x96 |-> snapshot.sqrt_price_x96,
                               tick |-> snapshot.tick,
                               liquidity |-> snapshot.liquidity])]

\* database.ts lines 194-203
AddPriceSnapshot(st, snapshot) ==
  LET counter == st.snapshot_id_counter + 1
  IN  [st EXCEPT !.snapshot_id_counter = counter,
                 !.price_snapshots =
                    Append(@, [id |-> counter,
                               pool_address |-> snapshot.pool_address,
                               timestamp |-> snapshot.timestamp,
                               price_token0_in_token1 |-> snapshot.price_token0_in_token1,
                               price_token1_in_token0 |-> snapshot.price_token1_in_token0,
                               sqrt_price_x96 |-> snapshot.sqrt_price_x96,
                               tick |-> snapshot.tick,
                               liquidity |-> snapshot.liquidity])]

\* a nullable string in a condition: null and '' are falsy
TruthyString(s) == s # Null /\ s[1] # <<>>

\* a nullable number in a condition: null and 0 are falsy
TruthyNumber(n) == n # Null /\ n[1] # 0

\* priceTracker.ts lines 33-60
SnapshotPoolPrice(st, pool, decimals0, decimals1, timestamp) ==
  IF ~TruthyString(pool.sqrt_price_x96) THEN st
  ELSE LET px == SqrtPriceX96ToPrice(pool.sqrt_price_x96[1], decimals0, decimals1)
       IN  IF px.error # Null THEN [st EXCEPT !.error = px.error]
           ELSE AddPriceSnapshot(st,
                  [pool_address |-> pool.address,
                   timestamp |-> timestamp,
                   price_token0_in_token1 |-> px.price0,
                   price_token1_in_token0 |-> px.price1,
                   sqrt_price_x96 |-> pool.sqrt_price_x96[1],
                   tick |-> IF TruthyNumber(pool.tick) THEN pool.tick[1] ELSE 0,
                   liquidity |-> IF TruthyString(pool.liquidity)
                                 THEN pool.liquidity[1] ELSE ToString(0)])

\* priceTracker.ts lines 14-24 from the pool at index i on
RECURSIVE SnapshotPools(_, _, _, _, _)
SnapshotPools(pl, tk, st, i, timestamp) ==
  IF i > Len(GetAllPools(pl)) THEN st
  ELSE LET pool == GetAllPools(pl)[i]
           token0 == GetToken(tk, pool.token0)
           token1 == GetToken(tk, pool.token1)
       IN  IF TruthyString(pool.sqrt_price_x96) /\ token0 # Null /\ token1 # Null
           THEN LET nx == SnapshotPoolPrice(st, pool, token0[1].decimals,
                                            token1[1].decimals, timestamp)
                IN  IF nx.error # Null THEN nx
                    ELSE SnapshotPools(pl, tk, [nx EXCEPT !.count = @ + 1],
                                       i + 1, timestamp)
           ELSE SnapshotPools(pl, tk, st, i + 1, timestamp)

\* priceTracker.ts lines 9-28; returned is the count the pass reports
SnapshotAllPrices ==
  LET st == SnapshotPools(pools, tokens,
              [price_snapshots |-> price_snapshots,
               snapshot_id_counter |-> snapshot_id_counter,
               count |-> 0, error |-> Null], 1, now)
  IN  /\ price_snapshots' = st.price_snapshots
      /\ snapshot_id_counter' = st.snapshot_id_counter
      /\ thrown' = st.error
      /\ returned' = IF st.error # Null THEN Null ELSE Some(st.count)
      /\ lastCall' = Some([op |-> "snapshotAllPrices", arg |-> now])
      /\ UNCHANGED <<tokens, pools, indexer_state, head, now, run, pass,
                     mainPc, lastDone, candles>>

(***************************************************************************)
(* The price snapshot store of dbHelpers (database.ts lines 205-232).      *)
(* The default limit 1000 is scaled to 1.                                  *)
(***************************************************************************)
DefaultLimit == 1

\* _.sortBy(list, 'timestamp'): stable, one element after the other
InsertByTimestamp(sorted, x) ==
  LET k == Cardinality({i \in 1..Len(sorted) : sorted[i].timestamp <= x.timestamp})
  IN  SubSeq(sorted, 1, k) \o <<x>> \o SubSeq(sorted, k + 1, Len(sorted))

RECURSIVE SortByTimestamp(_)
SortByTimestamp(list) ==
  IF list = <<>> THEN <<>>
  ELSE InsertByTimestamp(SortByTimestamp(SubSeq(list, 1, Len(list) - 1)),
                         list[Len(list)])

\* _.take(list, n)
Take(list, n) == SubSeq(list, 1, IF n < 0 THEN 0 ELSE Min(n, Len(list)))

GetPriceSnapshots_takeFirst(snaps, poolAddress, fromTs, toTs, limit) ==
  LET InRange(sn) == /\ ToLowerCase(sn.pool_address) = ToLowerCase(poolAddress)
                     /\ sn.timestamp >= fromTs
                     /\ sn.timestamp <= toTs
  IN  SortByTimestamp(Take(SelectSeq(snaps, InRange),
                           IF limit = Null THEN DefaultLimit ELSE limit[1]))

\* database.ts lines 205-215; limit is Null when the argument is omitted
GetPriceSnapshots(snaps, poolAddress, fromTs, toTs, limit) ==
  LET InRange(sn) == /\ ToLowerCase(sn.pool_address) = ToLowerCase(poolAddress)
                     /\ sn.timestamp >= fromTs
                     /\ sn.timestamp <= toTs
  IN  Take(SortByTimestamp(SelectSeq(snaps, InRange)),
           IF limit = Null THEN DefaultLimit ELSE limit[1])

CleanOldSnapshots_inclusive(snaps, cutoffTimestamp) ==
  LET Kept(sn) == ~(sn.timestamp <= cutoffTimestamp)
      after == SelectSeq(snaps, Kept)
  IN  [price_snapshots |-> after, deleted |-> Len(snaps) - Len(after)]

\* database.ts lines 225-232
CleanOldSnapshots(snaps, cutoffTimestamp) ==
  LET Kept(sn) == ~(sn.timestamp < cutoffTimestamp)
      after == SelectSeq(snaps, Kept)
  IN  [price_snapshots |-> after, deleted |-> Len(snaps) - Len(after)]

(***************************************************************************)
(* Candles: PriceTracker.buildCandles and getCandles (priceTracker.ts      *)
(* lines 79-184) over the candle cache of dbHelpers (database.ts lines     *)
(* 235-270).  The interval widths are scaled from 60 s .. 604800 s to 2 .. *)
(* 8 and the limit 100000 of the snapshots buildCandles reads to 2.  The   *)
(* volume fields of a candle are always the string '0' and are left out.   *)
(***************************************************************************)
HistoryLimit == 2

\* priceTracker.ts lines 173-184
GetIntervalSeconds(interval) ==
  CASE interval = "1m" -> 2
    [] interval = "5m" -> 3
    [] interval = "15m" -> 4
    [] interval = "1h" -> 5
    [] interval = "4h" -> 6
    [] interval = "1d" -> 7
    [] interval = "1w" -> 8
    [] OTHER -> 5

\* priceTracker.ts lines 79-86
GetPriceHistory(snaps, poolAddress, fromTimestamp, toTimestamp, limit) ==
  GetPriceSnapshots(snaps, poolAddress, fromTimestamp, toTimestamp, limit)

Bucket_exact(timestamp, intervalSeconds) == timestamp

\* Math.floor(timestamp / intervalSeconds) * intervalSeconds
Bucket(timestamp, intervalSeconds) ==
  (timestamp \div intervalSeconds) * intervalSeconds

\* a < b for two strings, character by character
RECURSIVE StringLess(_, _)
StringLess(a, b) ==
  IF b = <<>> THEN FALSE
  ELSE IF a = <<>> THEN TRUE
  ELSE IF a[1] # b[1] THEN a[1] < b[1]
  ELSE StringLess(Tail(a), Tail(b))

\* Extend changed to leave close at the first price of the candle
Extend_keepClose(currentCandle, snapshot) ==
  LET price == ParseFloat(snapshot.price_token0_in_token1)
      high == ParseFloat(currentCandle.high)
      low == ParseFloat(currentCandle.low)
  IN  [currentCandle EXCEPT
         !.high = IF Less(high, price)
                  THEN snapshot.price_token0_in_token1 ELSE @,
         !.low = IF Less(price, low)
                 THEN snapshot.price_token0_in_token1 ELSE @]

Extend_compareStrings(currentCandle, snapshot) ==
  LET price == snapshot.price_token0_in_token1
  IN  [currentCandle EXCEPT
         !.high = IF StringLess(currentCandle.high, price) THEN price ELSE @,
         !.low = IF StringLess(price, currentCandle.low) THEN price ELSE @,
         !.close = price]

\* priceTracker.ts lines 125-132: the snapshot joins the current candle
Extend(currentCandle, snapshot) ==
  LET price == ParseFloat(snapshot.price_token0_in_token1)
      high == ParseFloat(currentCandle.high)
      low == ParseFloat(currentCandle.low)
  IN  [currentCandle EXCEPT
         !.high = IF Less(high, price)
                  THEN snapshot.price_token0_in_token1 ELSE @,
         !.low = IF Less(price, low)
                 THEN snapshot.price_token0_in_token1 ELSE @,
         !.close = snapshot.price_token0_in_token1]

\* StartsCandle changed to start a candle on an equal bucket as well
StartsCandle_onEqual(currentCandle, snapshotCandle, candleStart) ==
  currentCandle = Null \/ snapshotCandle >= candleStart

\* priceTracker.ts line 109: the test that starts a new candle
StartsCandle(currentCandle, snapshotCandle, candleStart) ==
  currentCandle = Null \/ snapshotCandle > candleStart

\* priceTracker.ts lines 104-134: the loop from snapshot i on; acc holds
\* candles, currentCandle and candleStart
RECURSIVE BuildFrom(_, _, _, _, _, _)
BuildFrom(snapshots, i, acc, poolAddress, interval, intervalSeconds) ==
  IF i > Len(snapshots) THEN acc
  ELSE LET snapshot == snapshots[i]
           snapshotCandle == Bucket(snapshot.timestamp, intervalSeconds)
           nx == IF StartsCandle(acc.currentCandle, snapshotCandle, acc.candleStart)
                 THEN [candles |-> IF acc.currentCandle # Null
                                   THEN Append(acc.candles, acc.currentCandle[1])
                                   ELSE acc.candles,
                       candleStart |-> snapshotCandle,
                       currentCandle |->
                         Some([pool_address |-> ToLowerCase(poolAddress),
                               interval |-> interval,
                               timestamp |-> snapshotCandle,
                               open |-> snapshot.price_token0_in_token1,
                               high |-> snapshot.price_token0_in_token1,
                               low |-> snapshot.price_token0_in_token1,
                               close |-> snapshot.price_token0_in_token1])]
                 ELSE [acc EXCEPT
                         !.currentCandle = Some(Extend(acc.currentCandle[1], snapshot))]
       IN  BuildFrom(snapshots, i + 1, nx, poolAddress, interval, intervalSeconds)

\* priceTracker.ts lines 91-142
BuildCandles(snaps, poolAddress, interval, fromTimestamp, toTimestamp) ==
  LET intervalSeconds == GetIntervalSeconds(interval)
      snapshots == GetPriceHistory(snaps, poolAddress, fromTimestamp,
                                   toTimestamp, Some(HistoryLimit))
      acc == BuildFrom(snapshots, 1,
                       [candles |-> <<>>, currentCandle |-> Null,
                        candleStart |-> Bucket(fromTimestamp, intervalSeconds)],
                       poolAddress, interval, intervalSeconds)
  IN  IF Len(snapshots) = 0 THEN <<>>
      ELSE IF acc.currentCandle # Null
           THEN Append(acc.candles, acc.currentCandle[1])
           ELSE acc.candles

\* database.ts lines 235-245
GetCandles(cs, poolAddress, interval, fromTs, toTs) ==
  LET InRange(c) == /\ ToLowerCase(c.pool_address) = ToLowerCase(poolAddress)
                    /\ c.interval = interval
                    /\ c.timestamp >= fromTs
                    /\ c.timestamp <= toTs
  IN  SortByTimestamp(SelectSeq(cs, InRange))

\* database.ts lines 247-270
UpsertCandle(cs, candle) ==
  LET found == {i \in 1..Len(cs) :
                  /\ cs[i].pool_address = ToLowerCase(candle.pool_address)
                  /\ cs[i].interval = candle.interval
                  /\ cs[i].timestamp = candle.timestamp}
  IN  IF found # {}
      THEN LET existing == CHOOSE i \in found : \A j \in found : i <= j
           IN  [cs EXCEPT ![existing] = Assign(@, candle)]
      ELSE Append(cs, [candle EXCEPT !.pool_address = ToLowerCase(@)])

\* priceTracker.ts lines 163-165 from the candle at index i on
RECURSIVE UpsertCandles(_, _, _)
UpsertCandles(cs, built, i) ==
  IF i > Len(built) THEN cs
  ELSE UpsertCandles(UpsertCandle(cs, built[i]), built, i + 1)

PriceTracker_getCandles_noCache(cs, snaps, poolAddress, interval, fromTimestamp, toTimestamp) ==
  LET built == BuildCandles(snaps, poolAddress, interval, fromTimestamp, toTimestamp)
  IN  [candles |-> UpsertCandles(cs, built, 1), result |-> built]

\* priceTracker.ts lines 147-168
PriceTracker_getCandles(cs, snaps, poolAddress, interval, fromTimestamp, toTimestamp) ==
  LET cached == GetCandles(cs, poolAddress, interval, fromTimestamp, toTimestamp)
      built == BuildCandles(snaps, poolAddress, interval, fromTimestamp, toTimestamp)
  IN  IF Len(cached) > 0 THEN [candles |-> cs, result |-> cached]
      ELSE [candles |-> UpsertCandles(cs, built, 1), result |-> built]

\* priceTracker.ts lines 224-234; the result is Null for null
PriceTracker_getPriceAt(snaps, poolAddress, timestamp) ==
  LET snapshots == GetPriceSnapshots(snaps, poolAddress, 0, timestamp, Some(1))
  IN  IF Len(snapshots) = 0 THEN Null
      ELSE Some([price0 |-> snapshots[Len(snapshots)].price_token0_in_token1,
                 price1 |-> snapshots[Len(snapshots)].price_token1_in_token0])

(***************************************************************************)
(* The chain and the clock move on their own.  A new block takes a second. *)
(***************************************************************************)
NewBlock ==
  /\ head < MaxHead
  /\ head' = head + 1
  /\ now' = now + 1
  /\ UNCHANGED <<tokens, pools, indexer_state, run, pass, mainPc, calls,
                 thrown, lastCall, lastDone, priceVars>>

Tick ==
  /\ now < MaxTime
  /\ now' = now + 1
  /\ UNCHANGED <<tokens, pools, indexer_state, head, run, pass, mainPc, calls,
                 thrown, lastCall, lastDone, priceVars>>

(***************************************************************************)
(* Triggers: main() (index.ts) and the admin routes (api/routes.ts).  The  *)
(* "sync" run is that of main(): the initial sync, then the hourly cron    *)
(* job; the "admin" run is that of POST /admin/sync/pools.  The pass is    *)
(* that of main() and of the minute cron job.  A caller awaits the         *)
(* operation; its continuation is a job of its own.                        *)
(***************************************************************************)
InFlight ==
  Cardinality({r \in Runs : run[r].pc \notin {"idle", "done", "aborted"}})
  + Cardinality({q \in Passes : pass[q].pc \notin {"idle", "done"}})

\* index.ts line 55
MainInitialSync ==
  /\ mainPc = "init"
  /\ InFlight < MaxActive
  /\ IndexAllPools("sync", Null)
  /\ mainPc' = "indexing"
  /\ UNCHANGED <<calls, thrown, lastCall>>

\* index.ts line 56: the initial indexAllPools returned
MainRefresh ==
  /\ mainPc = "indexing"
  /\ run["sync"].pc = "done"
  /\ pass["refresh"].pc = "idle"
  /\ run' = [run EXCEPT !["sync"] = IdleRun]
  /\ pass' = [pass EXCEPT !["refresh"] =
                NextPool(pools, [IdlePass EXCEPT !.by = "main"], 1, head)]
  /\ mainPc' = "refreshing"
  /\ UNCHANGED <<tokens, pools, indexer_state, head, now, calls, thrown,
                 lastCall, lastDone, priceVars>>

\* index.ts lines 58-87: the initial sync ended or threw; cron is scheduled
MainSchedule ==
  /\ \/ /\ mainPc = "indexing"
        /\ run["sync"].pc = "aborted"
        /\ run' = [run EXCEPT !["sync"] = IdleRun]
        /\ pass' = pass
     \/ /\ mainPc = "refreshing"
        /\ pass["refresh"].pc = "done"
        /\ pass["refresh"].by = "main"
        /\ pass' = [pass EXCEPT !["refresh"] = IdlePass]
        /\ run' = run
  /\ mainPc' = "scheduled"
  /\ UNCHANGED <<tokens, pools, indexer_state, head, now, calls, thrown,
                 lastCall, lastDone, priceVars>>

\* index.ts lines 80-87
CronHourly ==
  /\ mainPc = "scheduled"
  /\ InFlight < MaxActive
  /\ IndexAllPools("sync", Null)
  /\ UNCHANGED <<mainPc, calls, thrown, lastCall>>

\* index.ts lines 64-72
CronMinute ==
  /\ mainPc = "scheduled"
  /\ InFlight < MaxActive
  /\ UpdateAllPoolStates("refresh", "cron")
  /\ UNCHANGED <<mainPc, calls, thrown, lastCall>>

\* routes.ts lines 400-407
AdminSyncPools ==
  /\ InFlight < MaxActive
  /\ IndexAllPools("admin", Null)
  /\ UNCHANGED <<mainPc, calls, thrown, lastCall>>

\* history: what a returned discovery run left behind
Done(r) ==
  [tokens |-> tokens, pools |-> pools, indexer_state |-> indexer_state,
   startBlock |-> run[r].startBlock, currentBlock |-> run[r].currentBlock,
   failed |-> run[r].failed]

\* the caller of a cron, admin or client indexAllPools continues (or catches)
RunReturned(r) ==
  /\ run[r].pc \in {"done", "aborted"}
  /\ ~(r = "sync" /\ mainPc = "indexing")
  /\ run' = [run EXCEPT ![r] = IdleRun]
  /\ lastDone' = IF r # "api" THEN lastDone
                 ELSE IF run[r].pc = "done" THEN Some(Done(r)) ELSE Null
  /\ UNCHANGED <<tokens, pools, indexer_state, head, now, pass, mainPc, calls,
                 thrown, lastCall, priceVars>>

\* the caller of a cron or admin updateAllPoolStates continues
PassReturned(q) ==
  /\ pass[q].pc = "done"
  /\ pass[q].by # "main"
  /\ pass' = [pass EXCEPT ![q] = IdlePass]
  /\ UNCHANGED <<tokens, pools, indexer_state, head, now, run, mainPc, calls,
                 thrown, lastCall, lastDone, priceVars>>

Init ==
  /\ tokens = <<>>
  /\ pools = <<>>
  /\ indexer_state = <<>>
  /\ head = InitHead
  /\ now = 0
  /\ run = [r \in Runs |-> IdleRun]
  /\ pass = [q \in Passes |-> IdlePass]
  /\ mainPc = "init"
  /\ calls = 0
  /\ thrown = Null
  /\ lastCall = Null
  /\ lastDone = Null
  /\ price_snapshots = <<>>
  /\ snapshot_id_counter = 0
  /\ candles = <<>>
  /\ returned = Null

\* the rejections tried.  Each metadata read has its own .catch, and all
\* three fall back or none does; Promise.all of the pool reads rejects as
\* soon as one read does, so one rejected read stands for any.
TokenFailures == {{}, TokenReads}
PoolFailures == {{}, {"liquidity"}}

RunStep(r) ==
  \/ GotBlockNumber(r)
  \/ BlockNumberFailed(r)
  \/ GotEvents(r)
  \/ QueryFailed(r)
  \/ \E fails \in TokenFailures : GotToken0(r, fails)
  \/ \E fails \in TokenFailures : GotToken1(r, fails)
  \/ \E fails \in PoolFailures : \E h \in 0..MaxHead :
       PoolStateResumed(r, fails, h)
  \/ RunReturned(r)

PassStep(q) ==
  \/ \E fails \in PoolFailures : \E h \in 0..MaxHead :
       PassResumed(q, fails, h)
  \/ PassReturned(q)

Next ==
  \/ MainInitialSync
  \/ MainRefresh
  \/ MainSchedule
  \/ CronHourly
  \/ CronMinute
  \/ AdminSyncPools
  \/ \E r \in {"sync", "admin"} : RunStep(r)
  \/ \E q \in Passes : PassStep(q)
  \/ NewBlock

Spec == Init /\ [][Next]_vars

(***************************************************************************)
(* SpecRace: main() without admin requests.  The discovery runs of main    *)
(* and of the hourly cron job and the refresh passes of main and of the    *)
(* minute cron job are the only refreshers.                                *)
(***************************************************************************)
NextRace ==
  \/ MainInitialSync
  \/ MainRefresh
  \/ MainSchedule
  \/ CronHourly
  \/ CronMinute
  \/ RunStep("sync")
  \/ PassStep("refresh")
  \/ NewBlock

SpecRace == Init /\ [][NextRace]_vars

(***************************************************************************)
(* SpecResume: main() and admin requests when no request to the chain is   *)
(* rejected.  Every discovery run is called without a fromBlock; runs      *)
(* follow one another and overlap.                                         *)
(***************************************************************************)
NextResume ==
  \/ MainInitialSync
  \/ MainRefresh
  \/ MainSchedule
  \/ CronHourly
  \/ AdminSyncPools
  \/ \E r \in {"sync", "admin"} : GotBlockNumber(r)
  \/ \E r \in {"sync", "admin"} : GotEvents(r)
  \/ \E r \in {"sync", "admin"} : GotToken0(r, {})
  \/ \E r \in {"sync", "admin"} : GotToken1(r, {})
  \/ \E r \in {"sync", "admin"} : \E h \in 0..MaxHead : PoolStateResumed(r, {}, h)
  \/ \E r \in {"sync", "admin"} : RunReturned(r)
  \/ \E h \in 0..MaxHead : PassResumed("refresh", {}, h)
  \/ NewBlock

SpecResume == Init /\ [][NextResume]_vars

(***************************************************************************)
(* SpecApi: a client that calls the exported dbHelpers one after another   *)
(* with arguments of its choice: addToken, addPool, updatePool.            *)
(***************************************************************************)
Addresses(a) == {a, ToLowerCase(a)}

TokenInputs ==
  {[address |-> a, symbol |-> TokenSymbol(a), name |-> TokenName(a),
    decimals |-> TokenDecimals(a)] : a \in Addresses(TA) \cup Addresses(TB)}

PoolInputs ==
  {[address |-> a, token0 |-> t[1], token1 |-> t[2], fee |-> f,
    tick_spacing |-> IF f = 500 THEN 10 ELSE 60] :
     a \in Addresses(P1) \cup {P2}, t \in {<<TA, TB>>, <<TB, TA>>},
     f \in {500, 3000}}

\* database.ts lines 150-169: no path of addPool throws
AddPoolThrows(pl, pool) == Null

ApiAddToken(token) ==
  /\ calls < MaxCalls
  /\ calls' = calls + 1
  /\ tokens' = AddToken(tokens, token)
  /\ thrown' = Null
  /\ lastCall' = Some([op |-> "addToken", arg |-> token])
  /\ UNCHANGED <<pools, indexer_state, head, now, run, pass, mainPc, lastDone, priceVars>>

ApiAddPool(pool) ==
  /\ calls < MaxCalls
  /\ calls' = calls + 1
  /\ pools' = AddPool(pools, pool)
  /\ thrown' = AddPoolThrows(pools, pool)
  /\ lastCall' = Some([op |-> "addPool", arg |-> pool])
  /\ UNCHANGED <<tokens, indexer_state, head, now, run, pass, mainPc, lastDone, priceVars>>

ApiUpdatePool(address) ==
  /\ calls < MaxCalls
  /\ calls' = calls + 1
  /\ pools' = UpdatePool(pools, address, LiveState(address, head, now))
  /\ thrown' = Null
  /\ lastCall' = Some([op |-> "updatePool", arg |-> address])
  /\ UNCHANGED <<tokens, indexer_state, head, now, run, pass, mainPc, lastDone, priceVars>>

ApiGetPoolsByPair(token0, token1) ==
  /\ calls < MaxCalls
  /\ calls' = calls + 1
  /\ returned' = Some(GetPoolsByPair(pools, token0, token1))
  /\ thrown' = Null
  /\ lastCall' = Some([op |-> "getPoolsByPair",
                       arg |-> [token0 |-> token0, token1 |-> token1]])
  /\ UNCHANGED <<tokens, pools, indexer_state, head, now, run, pass, mainPc,
                 lastDone, price_snapshots, snapshot_id_counter, candles>>

NextApi ==
  \/ \E token \in TokenInputs : ApiAddToken(token)
  \/ \E token0, token1 \in Addresses(TA) \cup Addresses(TB) :
       ApiGetPoolsByPair(token0, token1)
  \/ \E pool \in PoolInputs : ApiAddPool(pool)
  \/ \E address \in Addresses(P1) \cup Addresses(P2) : ApiUpdatePool(address)
  \/ Tick

SpecApi == Init /\ [][NextApi]_vars

(***************************************************************************)
(* SpecCalls: a client that calls poolIndexer.indexAllPools(fromBlock)     *)
(* with a fromBlock of its choice, each call after the one before it       *)
(* returned, while the chain and the clock move on.                        *)
(***************************************************************************)
FromBlockInputs == {Null} \cup {Some(n) : n \in 0..MaxHead}

ApiIndexAllPools(fromBlock) ==
  /\ calls < MaxCalls
  /\ calls' = calls + 1
  /\ IndexAllPools("api", fromBlock)
  /\ UNCHANGED <<mainPc, thrown, lastCall>>

NextCalls ==
  \/ \E fromBlock \in FromBlockInputs : ApiIndexAllPools(fromBlock)
  \/ RunStep("api")
  \/ NewBlock
  \/ Tick

SpecCalls == Init /\ [][NextCalls]_vars

\* every awaited request of the run settles, by resolving or by rejecting,
\* and the continuation then runs
SpecCallsFair == SpecCalls /\ WF_vars(RunStep("api"))

(***************************************************************************)
(* SpecSnap: a client that calls, one after the other returned,            *)
(* indexAllPools(), dbHelpers.addPool, updateAllPoolStates() and           *)
(* snapshotAllPrices(), while the chain moves on.                          *)
(***************************************************************************)
ApiUpdateAllPoolStates ==
  /\ calls < MaxCalls
  /\ run["api"].pc = "idle"
  /\ calls' = calls + 1
  /\ UpdateAllPoolStates("refresh", "client")
  /\ UNCHANGED <<mainPc, thrown, lastCall>>

ApiSnapshotAllPrices ==
  /\ calls < MaxCalls
  /\ run["api"].pc = "idle"
  /\ pass["refresh"].pc = "idle"
  /\ calls' = calls + 1
  /\ SnapshotAllPrices

NextSnap ==
  \/ ApiIndexAllPools(Null)
  \/ RunStep("api")
  \/ \E pool \in PoolInputs : ApiAddPool(pool)
  \/ ApiUpdateAllPoolStates
  \/ PassStep("refresh")
  \/ ApiSnapshotAllPrices
  \/ NewBlock

SpecSnap == Init /\ [][NextSnap]_vars

(***************************************************************************)
(* SpecPrices: a client of the snapshot store.  It calls                   *)
(* dbHelpers.addPriceSnapshot, cleanOldSnapshots and getPriceSnapshots     *)
(* with arguments of its choice, one call at a time: lastCall and returned *)
(* hold the call and its result until the client has taken the result.     *)
(***************************************************************************)
TimestampInputs == 0..2

PriceInputs == {NumberToString(Num(9, 0)), NumberToString(Num(10, 0))}

\* snapshots of P1 as the chain spells it and of P2 in lowercase
StoredAddresses == {P1, ToLowerCase(P2)}

QueryAddresses == {P1, ToLowerCase(P1), ToLowerCase(P2)}

LimitInputs == {Null, Some(2), Some(MaxSnapshots)}

CutoffInputs == 0..3

SnapshotOf(a, timestamp, price) ==
  [pool_address |-> a,
   timestamp |-> timestamp,
   price_token0_in_token1 |-> price,
   price_token1_in_token0 |-> NumberToString(Recip(ParseFloat(price))),
   sqrt_price_x96 |-> ToString(Slot0(a, InitHead).sqrtPriceX96),
   tick |-> Slot0(a, InitHead).tick,
   liquidity |-> ToString(Liquidity(a, InitHead))]

SnapshotInputs ==
  {SnapshotOf(a, t, NumberToString(Num(9, 0))) :
     a \in StoredAddresses, t \in TimestampInputs}

ApiAddPriceSnapshot(snapshot) ==
  LET st == AddPriceSnapshot([price_snapshots |-> price_snapshots,
                              snapshot_id_counter |-> snapshot_id_counter],
                             snapshot)
  IN  /\ lastCall = Null
      /\ snapshot_id_counter < MaxSnapshots
      /\ price_snapshots' = st.price_snapshots
      /\ snapshot_id_counter' = st.snapshot_id_counter
      /\ returned' = Some(st.snapshot_id_counter)
      /\ lastCall' = Some([op |-> "addPriceSnapshot", arg |-> snapshot])
      /\ UNCHANGED <<tokens, pools, indexer_state, head, now, run, pass,
                     mainPc, calls, thrown, lastDone, candles>>

ApiCleanOldSnapshots(cutoffTimestamp) ==
  LET res == CleanOldSnapshots(price_snapshots, cutoffTimestamp)
  IN  /\ lastCall = Null
      /\ price_snapshots' = res.price_snapshots
      /\ returned' = Some(res.deleted)
      /\ lastCall' = Some([op |-> "cleanOldSnapshots",
                           arg |-> [cutoffTimestamp |-> cutoffTimestamp]])
      /\ UNCHANGED <<tokens, pools, indexer_state, head, now, run, pass,
                     mainPc, calls, thrown, lastDone, snapshot_id_counter,
                     candles>>

ApiGetPriceSnapshots(poolAddress, fromTs, toTs, limit) ==
  /\ lastCall = Null
  /\ returned' = Some(GetPriceSnapshots(price_snapshots, poolAddress,
                                        fromTs, toTs, limit))
  /\ lastCall' = Some([op |-> "getPriceSnapshots",
                       arg |-> [poolAddress |-> poolAddress, fromTs |-> fromTs,
                                toTs |-> toTs, limit |-> limit]])
  /\ UNCHANGED <<tokens, pools, indexer_state, head, now, run, pass, mainPc,
                 calls, thrown, lastDone, price_snapshots,
                 snapshot_id_counter, candles>>

\* the client has taken the result of its call
ApiReturned ==
  /\ lastCall # Null
  /\ lastCall' = Null
  /\ returned' = Null
  /\ UNCHANGED <<tokens, pools, indexer_state, head, now, run, pass, mainPc,
                 calls, thrown, lastDone, price_snapshots,
                 snapshot_id_counter, candles>>

NextPrices ==
  \/ \E snapshot \in SnapshotInputs : ApiAddPriceSnapshot(snapshot)
  \/ \E cutoff \in CutoffInputs : ApiCleanOldSnapshots(cutoff)
  \/ \E a \in QueryAddresses, fromTs \in TimestampInputs,
        toTs \in TimestampInputs, limit \in LimitInputs :
       ApiGetPriceSnapshots(a, fromTs, toTs, limit)
  \/ ApiReturned

SpecPrices == Init /\ [][NextPrices]_vars

(***************************************************************************)
(* SpecCandles: a client that fills the snapshot store in any order and    *)
(* calls PriceTracker.buildCandles and getCandles, one call at a time.     *)
(***************************************************************************)
\* snapshots of P1 at both prices in the first bucket, at one price each
\* later on, and one snapshot of P2
CandleSnapshotInputs ==
  {SnapshotOf(P1, 0, price) : price \in PriceInputs}
    \cup {SnapshotOf(P1, 1, NumberToString(Num(9, 0))),
          SnapshotOf(P1, 2 * GetIntervalSeconds("1m"), NumberToString(Num(10, 0))),
          SnapshotOf(ToLowerCase(P2), 1, NumberToString(Num(9, 0)))}

CandleAddresses == {P1, ToLowerCase(P2)}

\* a named interval and a name the map does not hold
IntervalInputs == {"1m", "2h"}

WindowInputs ==
  {[fromTimestamp |-> 0, toTimestamp |-> 2 * GetIntervalSeconds("1m")],
   [fromTimestamp |-> 1, toTimestamp |-> 2 * GetIntervalSeconds("1m")]}

ApiBuildCandles(poolAddress, interval, fromTimestamp, toTimestamp) ==
  /\ lastCall = Null
  /\ returned' = Some(BuildCandles(price_snapshots, poolAddress, interval,
                                   fromTimestamp, toTimestamp))
  /\ lastCall' = Some([op |-> "buildCandles",
                       arg |-> [poolAddress |-> poolAddress,
                                interval |-> interval,
                                fromTimestamp |-> fromTimestamp,
                                toTimestamp |-> toTimestamp]])
  /\ UNCHANGED <<tokens, pools, indexer_state, head, now, run, pass, mainPc,
                 calls, thrown, lastDone, price_snapshots,
                 snapshot_id_counter, candles>>

ApiGetCandles(poolAddress, interval, fromTimestamp, toTimestamp) ==
  LET res == PriceTracker_getCandles(candles, price_snapshots, poolAddress,
                                     interval, fromTimestamp, toTimestamp)
  IN  /\ lastCall = Null
      /\ candles' = res.candles
      /\ returned' = Some(res.result)
      /\ lastCall' = Some([op |-> "getCandles",
                           arg |-> [poolAddress |-> poolAddress,
                                    interval |-> interval,
                                    fromTimestamp |-> fromTimestamp,
                                    toTimestamp |-> toTimestamp]])
      /\ UNCHANGED <<tokens, pools, indexer_state, head, now, run, pass,
                     mainPc, calls, thrown, lastDone, price_snapshots,
                     snapshot_id_counter>>

NextCandles ==
  \/ \E snapshot \in CandleSnapshotInputs : ApiAddPriceSnapshot(snapshot)
  \/ \E a \in CandleAddresses, interval \in IntervalInputs, w \in WindowInputs :
       ApiBuildCandles(a, interval, w.fromTimestamp, w.toTimestamp)
  \/ \E a \in CandleAddresses, interval \in IntervalInputs, w \in WindowInputs :
       ApiGetCandles(a, interval, w.fromTimestamp, w.toTimestamp)
  \/ ApiReturned

SpecCandles == Init /\ [][NextCandles]_vars

(***************************************************************************)
(* SpecPriceAt: a client that fills the snapshot store in any order and    *)
(* calls PriceTracker.getPriceAt, one call at a time.                      *)
(***************************************************************************)
ApiGetPriceAt(poolAddress, timestamp) ==
  /\ lastCall = Null
  /\ returned' = Some(PriceTracker_getPriceAt(price_snapshots, poolAddress,
                                              timestamp))
  /\ lastCall' = Some([op |-> "getPriceAt",
                       arg |-> [poolAddress |-> poolAddress,
                                timestamp |-> timestamp]])
  /\ UNCHANGED <<tokens, pools, indexer_state, head, now, run, pass, mainPc,
                 calls, thrown, lastDone, price_snapshots,
                 snapshot_id_counter, candles>>

NextPriceAt ==
  \/ \E snapshot \in CandleSnapshotInputs : ApiAddPriceSnapshot(snapshot)
  \/ \E a \in QueryAddresses,
        timestamp \in {0, 1, 2 * GetIntervalSeconds("1m")} :
       ApiGetPriceAt(a, timestamp)
  \/ ApiReturned

SpecPriceAt == Init /\ [][NextPriceAt]_vars

(***************************************************************************)
(* SpecCache: a client of the candle cache.  It stores snapshots and calls *)
(* dbHelpers.upsertCandle and PriceTracker.getCandles with the pool        *)
(* address in either spelling, while the cache holds fewer than MaxCandles *)
(* candles.                                                                *)
(***************************************************************************)
CandleOf(a, interval, timestamp, price) ==
  [pool_address |-> a, interval |-> interval, timestamp |-> timestamp,
   open |-> price, high |-> price, low |-> price, close |-> price]

ApiUpsertCandle(candle) ==
  /\ lastCall = Null
  /\ Len(candles) < MaxCandles
  /\ candles' = UpsertCandle(candles, candle)
  /\ returned' = Null
  /\ lastCall' = Some([op |-> "upsertCandle", arg |-> candle])
  /\ UNCHANGED <<tokens, pools, indexer_state, head, now, run, pass, mainPc,
                 calls, thrown, lastDone, price_snapshots,
                 snapshot_id_counter>>

NextCache ==
  \/ \E snapshot \in CandleSnapshotInputs : ApiAddPriceSnapshot(snapshot)
  \/ \E a \in {P1, ToLowerCase(P1)}, t \in {0, 2 * GetIntervalSeconds("1m")},
        price \in PriceInputs :
       ApiUpsertCandle(CandleOf(a, "1m", t, price))
  \/ \E a \in {P1, ToLowerCase(P1)}, interval \in IntervalInputs, w \in WindowInputs :
       Len(candles) < MaxCandles
         /\ ApiGetCandles(a, interval, w.fromTimestamp, w.toTimestamp)
  \/ ApiReturned

SpecCache == Init /\ [][NextCache]_vars

(***************************************************************************)
(* SpecMath: a client that calls sqrtPriceX96ToPrice with the string of    *)
(* any sqrtPriceX96 of the unsigned range and any two token decimals.      *)
(***************************************************************************)
SqrtPriceInputs == {ToString(n) : n \in 0..MaxSqrtPriceX96}
DecimalsInputs == {TokenDecimals(TA), TokenDecimals(TB), 18}

ApiSqrtPriceX96ToPrice(sqrtPriceX96, decimals0, decimals1) ==
  LET r == SqrtPriceX96ToPrice(sqrtPriceX96, decimals0, decimals1)
  IN  /\ lastCall' = Some([op |-> "sqrtPriceX96ToPrice",
                           arg |-> [sqrtPriceX96 |-> sqrtPriceX96,
                                    decimals0 |-> decimals0,
                                    decimals1 |-> decimals1]])
      /\ thrown' = r.error
      /\ returned' = IF r.error # Null THEN Null
                     ELSE Some([price0 |-> r.price0, price1 |-> r.price1])
      /\ UNCHANGED <<tokens, pools, indexer_state, head, now, run, pass,
                     mainPc, calls, lastDone, price_snapshots,
                     snapshot_id_counter, candles>>

\* -5, 0, 0.3, 1, 9 and 10
PriceNumberInputs ==
  {[m |-> 0 - 5, e |-> 0], Num(0, 0), Num(3, 0 - 1), Num(1, 0), Num(9, 0),
   Num(10, 0)}

ApiPriceToTick(price) ==
  LET r == PriceToTick(price)
  IN  /\ lastCall' = Some([op |-> "priceToTick", arg |-> [price |-> price]])
      /\ thrown' = r.error
      /\ returned' = IF r.error # Null THEN Null ELSE Some(r.value)
      /\ UNCHANGED <<tokens, pools, indexer_state, head, now, run, pass,
                     mainPc, calls, lastDone, price_snapshots,
                     snapshot_id_counter, candles>>

NextMath ==
  \/ \E s \in SqrtPriceInputs, d0 \in DecimalsInputs, d1 \in DecimalsInputs :
       ApiSqrtPriceX96ToPrice(s, d0, d1)
  \/ \E price \in PriceNumberInputs : ApiPriceToTick(price)

SpecMath == Init /\ [][NextMath]_vars

(***************************************************************************)
(* SpecTokens: a client that calls indexAllPools() again and again, where  *)
(* each metadata read of ensureToken is rejected or served on its own.     *)
(***************************************************************************)
RunStepAnyToken(r) ==
  \/ GotBlockNumber(r)
  \/ BlockNumberFailed(r)
  \/ GotEvents(r)
  \/ QueryFailed(r)
  \/ \E fails \in SUBSET TokenReads : GotToken0(r, fails)
  \/ \E fails \in SUBSET TokenReads : GotToken1(r, fails)
  \/ \E fails \in PoolFailures : \E h \in 0..MaxHead :
       PoolStateResumed(r, fails, h)
  \/ RunReturned(r)

NextTokens ==
  \/ ApiIndexAllPools(Null)
  \/ RunStepAnyToken("api")
  \/ NewBlock

SpecTokens == Init /\ [][NextTokens]_vars

(***************************************************************************)
(* SpecCancel: the index script (scripts, 'npm run index'), which runs     *)
(* indexAllPools() and which its operator may interrupt and start again.   *)
(* The program installs no signal handler and indexAllPools takes no       *)
(* cancellation signal: an interrupt ends the process wherever the run is  *)
(* waiting, and the database file keeps what was written before.           *)
(***************************************************************************)
Interrupt ==
  /\ run["api"].pc \notin {"idle", "done", "aborted"}
  /\ run' = [run EXCEPT !["api"] = IdleRun]
  /\ UNCHANGED <<tokens, pools, indexer_state, head, now, pass, mainPc, calls,
                 thrown, lastCall, lastDone, priceVars>>

NextCancel ==
  \/ ApiIndexAllPools(Null)
  \/ RunStep("api")
  \/ NewBlock
  \/ Interrupt

SpecCancel == Init /\ [][NextCancel]_vars

(***************************************************************************)
(* Properties of discovery (indexAllPools), checked under Spec.            *)
(***************************************************************************)
Cursor(is) == GetState(is, "last_indexed_block")

Scanning(r) == run[r].pc \notin {"idle", "done", "aborted"}

\* C1: when a discovery run has written the cursor, every batch between
\* its start block and the cursor was queried without failure (no batch
\* of the run had its query rejected).
C1_CursorOnlyPastProcessedRanges ==
  \A r \in Runs : run[r].pc = "done" => run[r].failed = {}

\* C2: the step that completes a discovery run, with or without failed
\* batches, leaves the cursor at the decimal string of the head the run read
\* at its start, and that head is read once: it stays fixed while the run
\* scans.
C2_CursorIsHeadReadAtStart ==
  [][\A r \in Runs :
       /\ (run[r].pc # "done" /\ run'[r].pc = "done") =>
             /\ Cursor(indexer_state') # Null
             /\ ParseInt(Cursor(indexer_state')[1]) = run'[r].currentBlock
             /\ Cursor(indexer_state')[1] = ToString(run'[r].currentBlock)
       /\ (run[r].pc \notin {"idle", "head"} /\ run'[r].pc # "idle") =>
             run'[r].currentBlock = run[r].currentBlock]_vars

\* a run completed after a failed batch while the head had moved on, and the
\* cursor is the head it read at its start
C2_Witness ==
  \E r \in Runs :
    /\ run[r].pc = "done"
    /\ run[r].failed # {}
    /\ run[r].currentBlock < head
    /\ Cursor(indexer_state) = Some(ToString(run[r].currentBlock))

\* C3: at most one discovery run is between its cursor read and its cursor
\* write at any time.
C3_DiscoveryRunsMutuallyExclusive ==
  Cardinality({r \in Runs : Scanning(r)}) <= 1

(***************************************************************************)
(* Properties of the pool records, checked under Spec.                     *)
(***************************************************************************)
IdentityOf(p) ==
  [address |-> p.address, token0 |-> p.token0, token1 |-> p.token1,
   fee |-> p.fee, tick_spacing |-> p.tick_spacing]

LiveOf(p) ==
  [sqrt_price_x96 |-> p.sqrt_price_x96, tick |-> p.tick,
   liquidity |-> p.liquidity,
   fee_growth_global0_x128 |-> p.fee_growth_global0_x128,
   fee_growth_global1_x128 |-> p.fee_growth_global1_x128,
   last_updated |-> p.last_updated]

NullLive ==
  [sqrt_price_x96 |-> Null, tick |-> Null, liquidity |-> Null,
   fee_growth_global0_x128 |-> Null, fee_growth_global1_x128 |-> Null,
   last_updated |-> Null]

\* the step is an updatePoolState of the pool at address a whose reads,
\* served at block h, all succeeded
RefreshOf(a, h) ==
  \/ \E r \in Runs :
       /\ PoolStateResumed(r, {}, h)
       /\ ToLowerCase(Head(run[r].events).args.pool) = a
  \/ \E q \in Passes :
       /\ PassResumed(q, {}, h)
       /\ pools[pass[q].i].address = a

\* C6: no step removes a pool record or changes its address, token0,
\* token1, fee or tick_spacing; a step that changes a live-state field of a
\* record is a successful updatePoolState of that pool, never the addPool
\* of discovery.
C6_IdentityWriteOnce ==
  [][\A i \in 1..Len(pools) :
       /\ i <= Len(pools')
       /\ IdentityOf(pools'[i]) = IdentityOf(pools[i])
       /\ LiveOf(pools'[i]) # LiveOf(pools[i]) =>
            \E h \in 0..MaxHead :
              /\ RefreshOf(pools[i].address, h)
              /\ LiveOf(pools'[i]) = LiveState(pools[i].address, h, now)]_vars

\* discovery has just called addPool for a pool that is already recorded with
\* live state, and the record still has its live state
C6_Witness ==
  \E r \in Runs :
    /\ run[r].pc = "state"
    /\ LET p == GetPool(pools, Head(run[r].events).args.pool)
       IN  p # Null /\ p[1].sqrt_price_x96 # Null /\ p[1].last_updated # Null

\* what updatePoolState(a) leaves when the reads in fails were rejected
RefreshOutcome(a, fails, h) ==
  \A i \in 1..Len(pools) :
    /\ i <= Len(pools')
    /\ IdentityOf(pools'[i]) = IdentityOf(pools[i])
    /\ LiveOf(pools'[i]) =
         IF pools[i].address = ToLowerCase(a) /\ fails = {}
         THEN LiveState(a, h, now) ELSE LiveOf(pools[i])

\* C9: an updatePoolState with a rejected read leaves every live-state field
\* of every pool as it was and its caller goes on (no run is aborted by it);
\* one whose reads all succeed writes the six live-state fields of its pool
\* in the same step, from the reads and the clock.
C9_RefreshAllOrNothing ==
  [][/\ \A r \in Runs :
          (run[r].pc = "state" /\ run'[r] # run[r]) =>
            /\ run'[r].pc \in {"query", "token0", "token1", "state", "done"}
            /\ \A fails \in PoolFailures, h \in run[r].rd..head :
                 \/ RefreshOutcome(Head(run[r].events).args.pool, fails, h)
                 \/ ~PoolStateResumed(r, fails, h)
     /\ \A q \in Passes :
          (pass[q].pc = "state" /\ pass'[q] # pass[q]) =>
            /\ pass'[q].pc \in {"state", "done"}
            /\ \A fails \in PoolFailures, h \in pass[q].rd..head :
                 \/ RefreshOutcome(pools[pass[q].i].address, fails, h)
                 \/ ~PassResumed(q, fails, h)]_vars

\* a pass is over in which the refresh of one pool failed, leaving its
\* live state null, while another pool has all six fields
C9_Witness ==
  \E q \in Passes : \E i, j \in 1..Len(pools) :
    /\ pass[q].pc = "done"
    /\ pools[i].address \in Range(pass[q].attempted)
    /\ LiveOf(pools[i]) = NullLive
    /\ \A f \in DOMAIN NullLive : pools[j][f] # Null

\* C10: the step that completes a pass leaves the attempted addresses equal
\* to the addresses of the registry, one attempt per record in registry
\* order, whatever refreshes failed.
C10_EveryPoolAttemptedOnce ==
  [][\A q \in Passes :
       (pass[q].pc # "done" /\ pass'[q].pc = "done") =>
          pass'[q].attempted = [i \in 1..Len(pools') |-> pools'[i].address]]_vars

\* a pass completed over two pools although the refresh of the first failed
C10_Witness ==
  \E q \in Passes :
    /\ pass[q].pc = "done"
    /\ Len(pools) = 2
    /\ pass[q].attempted = <<pools[1].address, pools[2].address>>
    /\ LiveOf(pools[1]) = NullLive

(***************************************************************************)
(* Properties of successive indexAllPools calls, checked under SpecCalls.  *)
(***************************************************************************)
\* the call that just completed scanned the range the call before it scanned
SecondOverSameRange ==
  /\ run["api"].pc = "done"
  /\ lastDone # Null
  /\ run["api"].startBlock = lastDone[1].startBlock
  /\ run["api"].currentBlock = lastDone[1].currentBlock

\* the events of the batches whose query failed in the call described by ld
MissedEvents(ld) ==
  {ChainEvents[k] : k \in
     {k \in 1..Len(ChainEvents) : \E f \in ld.failed :
        /\ f <= ChainEvents[k].blockNumber
        /\ ChainEvents[k].blockNumber <= Min(f + batchSize - 1, ld.currentBlock)}}

C5_StartBlockResolution ==
  [][\A fromBlock \in FromBlockInputs :
       ApiIndexAllPools(fromBlock) =>
         run'["api"].startBlock =
           IF fromBlock # Null THEN fromBlock[1]
           ELSE IF Cursor(indexer_state) # Null
                THEN ParseInt(Cursor(indexer_state)[1])
                ELSE startBlockCfg]_vars

(***************************************************************************)
(* Properties of addPool, checked under SpecApi.                           *)
(***************************************************************************)
\* the records of pl whose address is a in some letter casing
Known(pl, a) == {i \in 1..Len(pl) : pl[i].address[1] = a[1]}

IdentityDiffers(rec, pool) ==
  \/ rec.token0[1] # pool.token0[1]
  \/ rec.token1[1] # pool.token1[1]
  \/ rec.fee # pool.fee
  \/ rec.tick_spacing # pool.tick_spacing

\* C7: an addPool whose address is recorded, in whatever letter casing it
\* is given, throws nothing and leaves the pool collection as it was: no
\* record added, none changed.
C7_AddKnownPoolIsNoOp ==
  [][\A pool \in PoolInputs :
       (ApiAddPool(pool) /\ Known(pools, pool.address) # {}) =>
          /\ pools' = pools
          /\ thrown' = Null]_vars

\* the last call was an addPool with the mixed-case address of the only
\* record, which has live state and other identity fields than the argument
C7_Witness ==
  /\ lastCall # Null
  /\ lastCall[1].op = "addPool"
  /\ lastCall[1].arg.address = P1
  /\ thrown = Null
  /\ Len(pools) = 1
  /\ pools[1].address = ToLowerCase(P1)
  /\ pools[1].last_updated # Null
  /\ IdentityDiffers(pools[1], lastCall[1].arg)

\* C8: an addPool whose address is recorded with other identity fields
\* throws ConsistencyViolation and leaves the stored record as it was.
C8_ConflictingInsertRaises ==
  [][\A pool \in PoolInputs :
       (/\ ApiAddPool(pool)
        /\ \E i \in Known(pools, pool.address) : IdentityDiffers(pools[i], pool)) =>
          /\ thrown' = Some("ConsistencyViolation")
          /\ pools' = pools]_vars

(***************************************************************************)
(* Properties of ensureToken, checked under SpecTokens.                    *)
(***************************************************************************)
\* the record of token a is the one ensureToken creates when the metadata
\* reads in fails were rejected
CreatedWith(tk, a, fails) ==
  /\ GetToken(tk, a) # Null
  /\ LET t == GetToken(tk, a)[1]
     IN  /\ t.name = IF "name" \in fails THEN "Unknown" ELSE TokenName(a)
         /\ t.symbol = IF "symbol" \in fails THEN "???" ELSE TokenSymbol(a)
         /\ t.decimals = IF "decimals" \in fails THEN 18 ELSE TokenDecimals(a)

\* C11: after every step, token0 and token1 of every pool record have a
\* token record; the step in which the metadata reads of a token settle
\* leaves a record for it, and a record the step creates has "Unknown",
\* "???" and 18 exactly in the fields whose read was rejected.
C11_PoolTokensRecorded ==
  [][/\ \A i \in 1..Len(pools') :
          /\ GetToken(tokens', pools'[i].token0) # Null
          /\ GetToken(tokens', pools'[i].token1) # Null
     /\ \A r \in Runs :
          (run[r].pc \in {"token0", "token1"} /\ run'[r] # run[r]) =>
            LET a == IF run[r].pc = "token0"
                     THEN Head(run[r].events).args.token0
                     ELSE Head(run[r].events).args.token1
            IN  /\ GetToken(tokens', a) # Null
                /\ \A fails \in SUBSET TokenReads :
                     \/ GetToken(tokens, a) # Null
                     \/ CreatedWith(tokens', a, fails)
                     \/ ~(GotToken0(r, fails) \/ GotToken1(r, fails))]_vars

\* a pool is recorded whose token0 record was created when only the symbol
\* read and the decimals read were rejected
C11_Witness ==
  \E i \in 1..Len(pools) :
    LET t == GetToken(tokens, pools[i].token0)
    IN  /\ t # Null
        /\ t[1].symbol = "???"
        /\ t[1].decimals = 18
        /\ t[1].name = TokenName(pools[i].token0)

(***************************************************************************)
(* Properties of sqrtPriceX96ToPrice, checked under SpecMath.              *)
(***************************************************************************)
\* C14: every call of sqrtPriceX96ToPrice, for every sqrtPriceX96 of the
\* unsigned range (zero included) and every pair of decimals, throws nothing
\* and returns the two price strings.
C14_PriceNeverOverflows ==
  [][\A s \in SqrtPriceInputs, d0 \in DecimalsInputs, d1 \in DecimalsInputs :
       ApiSqrtPriceX96ToPrice(s, d0, d1) =>
         /\ thrown' = Null
         /\ returned' # Null]_vars

(***************************************************************************)
(* Properties of snapshotAllPrices, checked under SpecSnap.                *)
(***************************************************************************)
\* the pool at index i has a live sqrt-price and both token records
Eligible(i) ==
  /\ pools[i].sqrt_price_x96 # Null
  /\ GetToken(tokens, pools[i].token0) # Null
  /\ GetToken(tokens, pools[i].token1) # Null

\* the snapshots the step appended
Appended ==
  SubSeq(price_snapshots', Len(price_snapshots) + 1, Len(price_snapshots'))

\* the snapshots the step appended for the pool at index i
AppendedFor(i) ==
  {k \in 1..Len(Appended) : Appended[k].pool_address = pools[i].address}

\* C12: a snapshotAllPrices pass keeps the stored snapshots, appends one
\* snapshot for every pool with a live sqrt-price and both token records,
\* with that pool's sqrt-price, tick and liquidity and the time of the pass,
\* appends none for any other pool, and reports the number appended.
C12_OneSnapshotPerEligiblePool ==
  [][ApiSnapshotAllPrices =>
       /\ Len(price_snapshots') >= Len(price_snapshots)
       /\ SubSeq(price_snapshots', 1, Len(price_snapshots)) = price_snapshots
       /\ \A i \in 1..Len(pools) :
            /\ Cardinality(AppendedFor(i)) = IF Eligible(i) THEN 1 ELSE 0
            /\ \A k \in AppendedFor(i) :
                 /\ Appended[k].sqrt_price_x96 = pools[i].sqrt_price_x96[1]
                 /\ Appended[k].tick = pools[i].tick[1]
                 /\ Appended[k].liquidity = pools[i].liquidity[1]
                 /\ Appended[k].timestamp = now
       /\ returned' = Some(Len(Appended))]_vars

\* C13: a snapshotAllPrices pass throws nothing, and appends a snapshot for
\* every eligible pool whose own price computation does not fail, whatever
\* happens for the other pools.
C13_CaptureFailureIsolated ==
  [][ApiSnapshotAllPrices =>
       /\ thrown' = Null
       /\ \A i \in 1..Len(pools) :
            (/\ Eligible(i)
             /\ SqrtPriceX96ToPrice(pools[i].sqrt_price_x96[1],
                   GetToken(tokens, pools[i].token0)[1].decimals,
                   GetToken(tokens, pools[i].token1)[1].decimals).error = Null)
            => AppendedFor(i) # {}]_vars

(***************************************************************************)
(* Properties of the snapshot store, checked under SpecPrices.             *)
(***************************************************************************)
\* the step is a call of the operation named op
Calls(op) == lastCall = Null /\ lastCall' # Null /\ lastCall'[1].op = op

\* C15: cleanOldSnapshots(cutoff) keeps, in their order, exactly the
\* snapshots with timestamp >= cutoff, of every pool, returns the number of
\* snapshots it removed, and a query that follows it over a range that ends
\* below the cutoff returns nothing.
C15_CleanRemovesOlderThanCutoff ==
  [][Calls("cleanOldSnapshots") =>
       LET cutoff == lastCall'[1].arg.cutoffTimestamp
           kept == {i \in 1..Len(price_snapshots) :
                      price_snapshots[i].timestamp >= cutoff}
       IN  /\ Len(price_snapshots') = Cardinality(kept)
           /\ \A i \in kept : \E j \in 1..Len(price_snapshots') :
                price_snapshots'[j] = price_snapshots[i]
           /\ \A j \in 1..Len(price_snapshots') :
                price_snapshots'[j].timestamp >= cutoff
           /\ \A j, k \in 1..Len(price_snapshots') :
                j < k => price_snapshots'[j].id < price_snapshots'[k].id
           /\ returned' = Some(Len(price_snapshots) - Cardinality(kept))
           /\ \A a \in QueryAddresses, fromTs \in TimestampInputs,
                 toTs \in TimestampInputs, limit \in LimitInputs :
                toTs < cutoff =>
                  GetPriceSnapshots(price_snapshots', a, fromTs, toTs, limit)
                    = <<>>]_vars

\* a clean-up removed one snapshot and kept one stamped exactly at the cutoff
C15_Witness ==
  /\ lastCall # Null
  /\ lastCall[1].op = "cleanOldSnapshots"
  /\ returned = Some(1)
  /\ \E j \in 1..Len(price_snapshots) :
       price_snapshots[j].timestamp = lastCall[1].arg.cutoffTimestamp

\* snapshot x comes before snapshot y in timestamp order, ties by id
Before(x, y) ==
  \/ x.timestamp < y.timestamp
  \/ x.timestamp = y.timestamp /\ x.id < y.id

\* C16: getPriceSnapshots(pool, fromTs, toTs, limit) returns snapshots of
\* that pool stamped within [fromTs, toTs] only, ascending by timestamp with
\* equal timestamps in id order, and they are the first `limit` (the default
\* limit when it is omitted) of all such snapshots in that order.
C16_QueryFilteredSortedLimited ==
  [][Calls("getPriceSnapshots") =>
       LET arg == lastCall'[1].arg
           res == returned'[1]
           limit == IF arg.limit = Null THEN DefaultLimit ELSE arg.limit[1]
           matching == {i \in 1..Len(price_snapshots) :
                          /\ ToLowerCase(price_snapshots[i].pool_address)
                               = ToLowerCase(arg.poolAddress)
                          /\ arg.fromTs <= price_snapshots[i].timestamp
                          /\ price_snapshots[i].timestamp <= arg.toTs}
       IN  /\ \A k \in 1..Len(res) :
                \E i \in matching : res[k] = price_snapshots[i]
           /\ \A j, k \in 1..Len(res) : j < k => Before(res[j], res[k])
           /\ Len(res) = Min(limit, Cardinality(matching))
           /\ \A i \in matching :
                (\A k \in 1..Len(res) : res[k] # price_snapshots[i])
                => \A k \in 1..Len(res) : Before(res[k], price_snapshots[i])]_vars

\* a query cut by its limit returned two snapshots of equal timestamp, the
\* first of which was not the first one stored
C16_Witness ==
  /\ lastCall # Null
  /\ lastCall[1].op = "getPriceSnapshots"
  /\ lastCall[1].arg.limit = Some(2)
  /\ Len(price_snapshots) = 3
  /\ Len(returned[1]) = 2
  /\ returned[1][1].timestamp = returned[1][2].timestamp
  /\ returned[1][1].id > 1
  /\ \A i \in 1..3 : ToLowerCase(price_snapshots[i].pool_address) = ToLowerCase(P1)

(***************************************************************************)
(* Properties of the candles, checked under SpecCandles.                   *)
(***************************************************************************)
\* candles c and d have the same cache key
SameKey(c, d) ==
  /\ c.pool_address = d.pool_address
  /\ c.interval = d.interval
  /\ c.timestamp = d.timestamp

\* what buildCandles returns for the arguments arg in the current state
BuiltFor(arg) ==
  BuildCandles(price_snapshots, arg.poolAddress, arg.interval,
               arg.fromTimestamp, arg.toTimestamp)

\* the cached candles of arg's pool and interval within arg's window
CachedFor(arg) ==
  {i \in 1..Len(candles) :
     /\ ToLowerCase(candles[i].pool_address) = ToLowerCase(arg.poolAddress)
     /\ candles[i].interval = arg.interval
     /\ arg.fromTimestamp <= candles[i].timestamp
     /\ candles[i].timestamp <= arg.toTimestamp}

\* C17: when the cache holds a candle of the pool and interval within the
\* window, getCandles returns those cached candles and leaves the cache as
\* it is, whatever the snapshots are; otherwise it returns what buildCandles
\* returns for the same arguments, and on return the cache holds every built
\* candle and every candle it held before under another key.
C17_GetCandlesCachedElseBuilt ==
  [][Calls("getCandles") =>
       LET arg == lastCall'[1].arg
           res == returned'[1]
       IN  IF CachedFor(arg) # {}
           THEN /\ Range(res) = {candles[i] : i \in CachedFor(arg)}
                /\ Len(res) = Cardinality(CachedFor(arg))
                /\ candles' = candles
           ELSE /\ res = BuiltFor(arg)
                /\ \A k \in 1..Len(res) : res[k] \in Range(candles')
                /\ \A c \in Range(candles) :
                     \/ c \in Range(candles')
                     \/ \E k \in 1..Len(res) : SameKey(c, res[k])]_vars

\* getCandles returned cached candles that differ from what the snapshots
\* now give
C17_Witness ==
  /\ lastCall # Null
  /\ lastCall[1].op = "getCandles"
  /\ returned[1] # <<>>
  /\ returned[1] # BuiltFor(lastCall[1].arg)
  /\ Range(returned[1]) \subseteq Range(candles)

\* C18: the timestamps of the candles buildCandles returns are strictly
\* increasing and each is a multiple of the interval width, in whatever
\* order the snapshots were stored.
C18_CandleTimestampsIncreasingAligned ==
  [][Calls("buildCandles") =>
       LET res == returned'[1]
           width == GetIntervalSeconds(lastCall'[1].arg.interval)
       IN  /\ \A j, k \in 1..Len(res) :
                j < k => res[j].timestamp < res[k].timestamp
           /\ \A k \in 1..Len(res) : res[k].timestamp % width = 0]_vars

\* buildCandles returned two candles although the later snapshot was stored
\* first
C18_Witness ==
  /\ lastCall # Null
  /\ lastCall[1].op = "buildCandles"
  /\ Len(returned[1]) = 2
  /\ Len(price_snapshots) = 2
  /\ price_snapshots[1].timestamp > price_snapshots[2].timestamp

\* x <= y for the Numbers two price strings spell
PriceLeq(x, y) == ~Less(ParseFloat(y), ParseFloat(x))

\* C19: every candle buildCandles returns has low <= open, low <= close,
\* low <= high, high >= open and high >= close.
C19_CandleLowHighBracket ==
  [][Calls("buildCandles") =>
       \A k \in 1..Len(returned'[1]) :
         LET c == returned'[1][k]
         IN  /\ PriceLeq(c.low, c.open)
             /\ PriceLeq(c.low, c.close)
             /\ PriceLeq(c.low, c.high)
             /\ PriceLeq(c.open, c.high)
             /\ PriceLeq(c.close, c.high)]_vars

\* buildCandles returned a candle that closed below its opening price
C19_Witness ==
  /\ lastCall # Null
  /\ lastCall[1].op = "buildCandles"
  /\ \E k \in 1..Len(returned[1]) :
       /\ returned[1][k].low = returned[1][k].close
       /\ returned[1][k].high = returned[1][k].open
       /\ Less(ParseFloat(returned[1][k].low), ParseFloat(returned[1][k].high))

\* C20: buildCandles returns as many candles as the snapshots of the pool
\* within the window occupy buckets floor(timestamp / width) * width, and
\* the timestamp of each candle is one of those buckets.
C20_OneCandlePerOccupiedBucket ==
  [][Calls("buildCandles") =>
       LET arg == lastCall'[1].arg
           res == returned'[1]
           width == GetIntervalSeconds(arg.interval)
           buckets ==
             {(price_snapshots[i].timestamp \div width) * width :
                i \in {j \in 1..Len(price_snapshots) :
                         /\ ToLowerCase(price_snapshots[j].pool_address)
                              = ToLowerCase(arg.poolAddress)
                         /\ arg.fromTimestamp <= price_snapshots[j].timestamp
                         /\ price_snapshots[j].timestamp <= arg.toTimestamp}}
       IN  /\ Len(res) = Cardinality(buckets)
           /\ \A k \in 1..Len(res) : res[k].timestamp \in buckets]_vars

(***************************************************************************)
(* Properties of the candle cache, checked under SpecCache.                *)
(***************************************************************************)
\* the cached candles whose key is that of candle c, addresses compared
\* without regard to case
CachedUnderKey(cs, c) ==
  {i \in 1..Len(cs) :
     /\ ToLowerCase(cs[i].pool_address) = ToLowerCase(c.pool_address)
     /\ cs[i].interval = c.interval
     /\ cs[i].timestamp = c.timestamp}

\* C21: after every call the candle cache holds at most one candle per
\* (pool address without regard to case, interval, timestamp), and an
\* upsertCandle for a key the cache holds adds no record and leaves the
\* candle's values under that key.
C21_CandleCacheUnique ==
  [][/\ \A i \in 1..Len(candles') :
          Cardinality(CachedUnderKey(candles', candles'[i])) = 1
     /\ Calls("upsertCandle") =>
          LET candle == lastCall'[1].arg
          IN  /\ CachedUnderKey(candles, candle) # {}
                   => Len(candles') = Len(candles)
              /\ \A i \in CachedUnderKey(candles', candle) :
                   /\ candles'[i].open = candle.open
                   /\ candles'[i].high = candle.high
                   /\ candles'[i].low = candle.low
                   /\ candles'[i].close = candle.close]_vars

(***************************************************************************)
(* Properties of the registry, checked under SpecApi.                      *)
(***************************************************************************)
\* the spellings of address a: lowercase, as the chain gives it, uppercase
Spellings(a) == {<<a[1], c>> : c \in {"l", "m", "u"}}

\* C22: after every call the token registry and the pool registry hold at
\* most one record per lowercased address, every address they store (a
\* pool's tokens included) is lowercase, and getToken and getPool return the
\* record for every spelling of its address.
C22_RegistryNormalized ==
  /\ \A i, j \in 1..Len(tokens) :
       ToLowerCase(tokens[i].address) = ToLowerCase(tokens[j].address) => i = j
  /\ \A i, j \in 1..Len(pools) :
       ToLowerCase(pools[i].address) = ToLowerCase(pools[j].address) => i = j
  /\ \A i \in 1..Len(tokens) :
       /\ tokens[i].address = ToLowerCase(tokens[i].address)
       /\ \A a \in Spellings(tokens[i].address) :
            GetToken(tokens, a) = Some(tokens[i])
  /\ \A i \in 1..Len(pools) :
       /\ pools[i].address = ToLowerCase(pools[i].address)
       /\ pools[i].token0 = ToLowerCase(pools[i].token0)
       /\ pools[i].token1 = ToLowerCase(pools[i].token1)
       /\ \A a \in Spellings(pools[i].address) :
            GetPool(pools, a) = Some(pools[i])

\* a pool was added, and a token in one spelling and then again in another:
\* each registry holds one record
C22_Witness ==
  /\ calls = MaxCalls
  /\ Len(tokens) = 1
  /\ Len(pools) = 1
  /\ lastCall # Null
  /\ lastCall[1].op = "addToken"
  /\ lastCall[1].arg.address # tokens[1].address
  /\ ToLowerCase(lastCall[1].arg.address) = tokens[1].address

\* C23: getPoolsByPair(A, B) returns the pools whose tokens are A and B in
\* either order, addresses compared without regard to case, and
\* getPoolsByPair(B, A) returns the same pools.
C23_PairLookupSymmetric ==
  [][\A A, B \in Addresses(TA) \cup Addresses(TB) :
       ApiGetPoolsByPair(A, B) =>
         /\ Range(returned'[1]) =
              {pools[i] : i \in {j \in 1..Len(pools) :
                 {ToLowerCase(pools[j].token0), ToLowerCase(pools[j].token1)}
                   = {ToLowerCase(A), ToLowerCase(B)}}}
         /\ Range(GetPoolsByPair(pools, B, A)) = Range(returned'[1])]_vars

\* a lookup by (B, A), spelled as the chain spells them, returned a pool
\* stored with tokens (a, b)
C23_Witness ==
  /\ lastCall # Null
  /\ lastCall[1].op = "getPoolsByPair"
  /\ lastCall[1].arg = [token0 |-> TB, token1 |-> TA]
  /\ returned # Null
  /\ \E k \in 1..Len(returned[1]) :
       /\ returned[1][k].token0 = ToLowerCase(TA)
       /\ returned[1][k].token1 = ToLowerCase(TB)

(***************************************************************************)
(* Properties of the price functions, checked under SpecMath.              *)
(***************************************************************************)
\* C24: priceToTick throws for every price that is zero or negative, and
\* returns no tick for it.
C24_PriceToTickRejectsNonPositive ==
  [][\A price \in PriceNumberInputs :
       (ApiPriceToTick(price) /\ price.m <= 0) =>
          /\ thrown' # Null
          /\ returned' = Null]_vars

(***************************************************************************)
(* Properties of concurrent refreshes, checked under SpecRace.             *)
(***************************************************************************)
\* the block at which the live state stored in pool record p was read: the
\* tick of a pool on the chain grows by one with every block
ServedAt(p) == p.tick[1] + PoolNo(p.address)

\* C25: whatever the interleaving of the refresh of a pool by a discovery
\* run and its refresh by a refresh pass, no step replaces the live state
\* of a pool by one read from the chain at an earlier block.
C25_LiveStateNeverOlder ==
  [][\A i \in 1..Len(pools) :
       pools[i].tick # Null => ServedAt(pools'[i]) >= ServedAt(pools[i])]_vars

(***************************************************************************)
(* Properties of an interrupted discovery run, checked under SpecCancel.   *)
(***************************************************************************)
\* C26: when a discovery run is cancelled, it is between two batches (no
\* batch is under way), the persisted cursor is then the last block of the
\* last batch the run completed, if it completed one, and the cursor is
\* never beyond the batch that was cancelled.
C26_CancelBetweenBatches ==
  [][Interrupt =>
       LET r == run["api"]
           cursor == Cursor(indexer_state')
       IN  /\ r.pc \notin {"query", "token0", "token1", "state"}
           /\ r.from > r.startBlock => cursor = Some(ToString(r.from - 1))
           /\ (cursor # Null /\ r.from > 0) => ParseInt(cursor[1]) < r.from]_vars

(***************************************************************************)
(* Properties of the snapshot ids, checked under SpecPrices.               *)
(***************************************************************************)
\* C27: no stored snapshot has an id above the counter and no two have the
\* same id; a snapshot that a step adds to the store is the one an
\* addPriceSnapshot call appends, with an id above the counter and so above
\* every id given before, also after a clean-up; every other stored
\* snapshot is unchanged; and only cleanOldSnapshots removes snapshots.
C27_SnapshotsAppendOnly ==
  [][/\ \A j \in 1..Len(price_snapshots') :
          /\ price_snapshots'[j].id <= snapshot_id_counter'
          /\ \A k \in 1..Len(price_snapshots') :
               price_snapshots'[j].id = price_snapshots'[k].id => j = k
          /\ \/ price_snapshots'[j] \in Range(price_snapshots)
             \/ /\ Calls("addPriceSnapshot")
                /\ j = Len(price_snapshots')
                /\ price_snapshots'[j].id > snapshot_id_counter
                /\ returned' = Some(price_snapshots'[j].id)
     /\ snapshot_id_counter' >= snapshot_id_counter
     /\ ~Calls("cleanOldSnapshots") =>
          \A i \in 1..Len(price_snapshots) :
            price_snapshots[i] \in Range(price_snapshots')]_vars

\* a snapshot was added after a clean-up had removed an earlier one
C27_Witness ==
  /\ lastCall # Null
  /\ lastCall[1].op = "addPriceSnapshot"
  /\ Len(price_snapshots) >= 2
  /\ Len(price_snapshots) < snapshot_id_counter
  /\ price_snapshots[Len(price_snapshots)].id = snapshot_id_counter

(***************************************************************************)
(* Properties of the batches of a discovery run, checked under             *)
(* SpecCallsFair.                                                          *)
(***************************************************************************)
\* run r is working on a batch: its query or one of its events is pending
InBatch(r) == r.pc \in {"query", "token0", "token1", "state"}

\* C28: a step of a run that is working on a batch stays in that batch
\* without querying it again, or queries the next batch, or ends the run; a
\* step on which the query of a batch fails goes on to the next batch or
\* ends the run; and a run that was called returns to idle.
C28_RunAttemptsBatchesOnceAndEnds ==
  /\ [][(run'["api"] # run["api"] /\ InBatch(run["api"])) =>
          /\ \/ /\ run'["api"].pc \in {"token0", "token1", "state"}
                /\ run'["api"].from = run["api"].from
             \/ /\ run'["api"].pc = "query"
                /\ run'["api"].from = run["api"].from + batchSize
             \/ run'["api"].pc = "done"
          /\ run'["api"].failed # run["api"].failed =>
               /\ run["api"].pc = "query"
               /\ run'["api"].failed = run["api"].failed \cup {run["api"].from}
               /\ run'["api"].pc \in {"query", "done"}]_vars
  /\ (run["api"].pc # "idle") ~> (run["api"].pc = "idle")

\* a run whose first batch failed went on to the second and returned with
\* the failed batch in its history
C28_Witness ==
  /\ lastDone # Null
  /\ \E f \in lastDone[1].failed : f + batchSize <= lastDone[1].currentBlock
  /\ run["api"].pc = "idle"

\* C29: the batch being queried, [from, To(from, currentBlock)], lies in
\* [startBlock, currentBlock], is not empty and has at most batchSize
\* blocks; the first batch of a run begins at startBlock, and no batch is
\* queried when startBlock is beyond currentBlock; the batch queried after
\* another begins one block after that one's end; the run ends after the
\* batch that ends at currentBlock.
C29_BatchesPartitionRange ==
  [][LET r == run["api"]
         q == run'["api"]
     IN  /\ q.pc = "query" =>
              /\ r.startBlock <= q.from
              /\ q.from <= To(q.from, q.currentBlock)
              /\ To(q.from, q.currentBlock) <= q.currentBlock
              /\ To(q.from, q.currentBlock) - q.from + 1 <= batchSize
         /\ r.pc = "head" /\ q.pc = "query" =>
              q.from = q.startBlock /\ q.startBlock <= q.currentBlock
         /\ r.pc = "head" /\ q.pc = "done" => q.startBlock > q.currentBlock
         /\ InBatch(r) /\ q.pc = "query" /\ q # r =>
              q.from = To(r.from, r.currentBlock) + 1
         /\ InBatch(r) /\ q.pc = "done" =>
              To(r.from, r.currentBlock) = r.currentBlock]_vars

\* the second batch of a run is being queried and is shorter than batchSize
\* because the range ends in it
C29_Witness ==
  /\ run["api"].pc = "query"
  /\ run["api"].from = run["api"].startBlock + batchSize
  /\ To(run["api"].from, run["api"].currentBlock) = run["api"].currentBlock
  /\ run["api"].currentBlock - run["api"].from + 1 < batchSize

(***************************************************************************)
(* Properties of the prices of a candle, checked under SpecCandles.        *)
(***************************************************************************)
\* the snapshots buildCandles reads for the arguments arg, in reading order
ReadFor(arg) ==
  GetPriceHistory(price_snapshots, arg.poolAddress, arg.fromTimestamp,
                  arg.toTimestamp, Some(HistoryLimit))

\* the places in ReadFor(arg) of the snapshots that fall into candle c
ConsumedInto(arg, c) ==
  LET read == ReadFor(arg)
      width == GetIntervalSeconds(arg.interval)
  IN  {i \in 1..Len(read) : Bucket(read[i].timestamp, width) = c.timestamp}

\* C30: every candle buildCandles returns has consumed at least one of the
\* snapshots read; its open is the price of the first of them and its close
\* the price of the last; its high is the price of one of them and no price
\* of them is above it, its low is the price of one of them and no price of
\* them is below it.
C30_CandleOhlcOfConsumed ==
  [][Calls("buildCandles") =>
       LET arg == lastCall'[1].arg
           read == ReadFor(arg)
       IN  \A k \in 1..Len(returned'[1]) :
             LET c == returned'[1][k]
                 into == ConsumedInto(arg, c)
                 price(i) == read[i].price_token0_in_token1
             IN  /\ into # {}
                 /\ \E first \in into :
                      /\ \A i \in into : first <= i
                      /\ c.open = price(first)
                 /\ \E last \in into :
                      /\ \A i \in into : i <= last
                      /\ c.close = price(last)
                 /\ \E i \in into : c.high = price(i)
                 /\ \A i \in into : PriceLeq(price(i), c.high)
                 /\ \E i \in into : c.low = price(i)
                 /\ \A i \in into : PriceLeq(c.low, price(i))]_vars

\* buildCandles returned a candle of two snapshots whose price rose
C30_Witness ==
  /\ lastCall # Null
  /\ lastCall[1].op = "buildCandles"
  /\ Len(returned[1]) = 1
  /\ Cardinality(ConsumedInto(lastCall[1].arg, returned[1][1])) = 2
  /\ returned[1][1].open = returned[1][1].low
  /\ returned[1][1].close = returned[1][1].high
  /\ Less(ParseFloat(returned[1][1].open), ParseFloat(returned[1][1].close))

\* the places in ReadFor(arg) of the snapshots whose bucket is beyond the
\* bucket of every snapshot read before them
Starters(arg) ==
  LET read == ReadFor(arg)
      width == GetIntervalSeconds(arg.interval)
  IN  {i \in 1..Len(read) :
         \A j \in 1..(i - 1) :
           Bucket(read[j].timestamp, width) < Bucket(read[i].timestamp, width)}

\* C31: buildCandles returns one candle per snapshot read whose bucket is
\* beyond the bucket of the candle open when it is read (the first snapshot
\* included), stamped with that bucket; every other snapshot read is folded
\* into the candle open when it is read: that candle's low is not above and
\* its high not below the snapshot's price, and its close is the price of
\* the last snapshot read before the next candle starts.
C31_CandleStartsOnlyOnLaterBucket ==
  [][Calls("buildCandles") =>
       LET arg == lastCall'[1].arg
           res == returned'[1]
           read == ReadFor(arg)
           width == GetIntervalSeconds(arg.interval)
           starters == Starters(arg)
           open(i) == Cardinality({s \in starters : s <= i})
       IN  /\ Len(res) = Cardinality(starters)
           /\ \A i \in 1..Len(read) :
                LET c == res[open(i)]
                    price == read[i].price_token0_in_token1
                IN  /\ i \in starters =>
                         c.timestamp = Bucket(read[i].timestamp, width)
                    /\ PriceLeq(c.low, price)
                    /\ PriceLeq(price, c.high)
                    /\ (i = Len(read) \/ (i + 1) \in starters) =>
                         c.close = price]_vars

\* buildCandles read two snapshots of different times and prices in one
\* bucket and returned one candle
C31_Witness ==
  /\ lastCall # Null
  /\ lastCall[1].op = "buildCandles"
  /\ Len(returned[1]) = 1
  /\ LET read == ReadFor(lastCall[1].arg)
     IN  /\ Len(read) = 2
         /\ read[1].timestamp < read[2].timestamp
         /\ read[1].price_token0_in_token1 # read[2].price_token0_in_token1
         /\ returned[1][1].close = read[2].price_token0_in_token1

(***************************************************************************)
(* Properties of the cursor across discovery runs, checked under Spec.     *)
(***************************************************************************)
\* C32: a step that writes the cursor 'last_indexed_block' over an earlier
\* value stores a block number that is not below the one it replaces.
C32_CursorNeverDecreases ==
  [][(Cursor(indexer_state) # Null /\ Cursor(indexer_state') # Null) =>
       ParseInt(Cursor(indexer_state)[1]) <= ParseInt(Cursor(indexer_state')[1])]_vars

(***************************************************************************)
(* Properties of resumed discovery, checked under SpecResume.              *)
(***************************************************************************)
\* C33: while no request to the chain has been rejected and every run was
\* called without a fromBlock, the pool of every decoded pool-creation
\* event of a block from the configured start block to the persisted
\* cursor is in the registry.
C33_ResumptionLosesNoBlock ==
  Cursor(indexer_state) # Null =>
    \A k \in 1..Len(ChainEvents) :
      (/\ ChainEvents[k].hasArgs
       /\ startBlockCfg <= ChainEvents[k].blockNumber
       /\ ChainEvents[k].blockNumber <= ParseInt(Cursor(indexer_state)[1]))
        => GetPool(pools, ChainEvents[k].args.pool) # Null

\* a run resumed at the cursor of an earlier run and moved the cursor on to
\* a block that holds a pool-creation event
C33_Witness ==
  /\ Cursor(indexer_state) # Null
  /\ \E r \in Runs :
       /\ run[r].pc = "done"
       /\ run[r].startBlock > startBlockCfg
       /\ run[r].startBlock < run[r].currentBlock
       /\ Cursor(indexer_state)[1] = ToString(run[r].currentBlock)
       /\ \E k \in 1..Len(ChainEvents) :
            /\ ChainEvents[k].blockNumber > run[r].startBlock
            /\ ChainEvents[k].blockNumber <= run[r].currentBlock

(***************************************************************************)
(* Properties of getCandles and its cache, checked under SpecCandles.      *)
(***************************************************************************)
\* C34: a getCandles call made right after another with the same pool,
\* interval, fromTs and toTs, the snapshots being the same, returns the
\* sequence of candles the first returned.
C34_GetCandlesRepeatable ==
  [][Calls("getCandles") =>
       LET arg == lastCall'[1].arg
       IN  PriceTracker_getCandles(candles', price_snapshots', arg.poolAddress,
                                   arg.interval, arg.fromTimestamp,
                                   arg.toTimestamp).result
             = returned'[1]]_vars

\* what buildCandles returns for candle c's pool and interval over the
\* window that is c's bucket, [timestamp, timestamp + width - 1]
BuiltOverBucket(c) ==
  BuildCandles(price_snapshots, c.pool_address, c.interval, c.timestamp,
               c.timestamp + GetIntervalSeconds(c.interval) - 1)

\* C35: when getCandles finds no cached candle and writes the candles it
\* built to the cache, each of them is the one candle buildCandles returns
\* over the window that is the candle's whole bucket.
C35_CachedCandleIsBucketAggregate ==
  [][(Calls("getCandles") /\ CachedFor(lastCall'[1].arg) = {}) =>
       \A k \in 1..Len(returned'[1]) :
         /\ returned'[1][k] \in Range(candles')
         /\ BuiltOverBucket(returned'[1][k]) = <<returned'[1][k]>>]_vars

(***************************************************************************)
(* Properties of getPriceAt, checked under SpecPriceAt.                    *)
(***************************************************************************)
\* the places in the store of the snapshots of the pool taken at or before
\* timestamp
TakenBy(poolAddress, timestamp) ==
  {i \in 1..Len(price_snapshots) :
     /\ ToLowerCase(price_snapshots[i].pool_address) = ToLowerCase(poolAddress)
     /\ price_snapshots[i].timestamp <= timestamp}

\* C36: getPriceAt returns null when the pool has no snapshot at or before
\* the timestamp, and otherwise the two prices of a snapshot of the pool at
\* or before the timestamp that no other such snapshot is later than.
C36_PriceAtIsLatestNotAfter ==
  [][Calls("getPriceAt") =>
       LET arg == lastCall'[1].arg
           taken == TakenBy(arg.poolAddress, arg.timestamp)
           res == returned'[1]
       IN  IF taken = {} THEN res = Null
           ELSE /\ res # Null
                /\ \E i \in taken :
                     /\ \A j \in taken : price_snapshots[j].timestamp
                                           <= price_snapshots[i].timestamp
                     /\ res[1].price0 = price_snapshots[i].price_token0_in_token1
                     /\ res[1].price1 = price_snapshots[i].price_token1_in_token0]_vars

=============================================================================
